---- MODULE Spec2Model ----
(***************************************************************************)
(* A model of vcblobstore: the local git backend (package local) with its  *)
(* process-wide job serializer, and the GitLab backend (package gitlab).   *)
(*                                                                         *)
(* The git executable, the file system and the GitLab service are external *)
(* collaborators.  Their behaviour is modelled at the call sites that use  *)
(* them: a command is an operator from the repository state to the         *)
(* (error, new state) the code receives.                                   *)
(***************************************************************************)
EXTENDS Integers, Sequences, FiniteSets, TLC

VARIABLES
    simFail,    \* os.Getenv(SimulateGitCommitFailureEnvvarName) == "true"
    repo,       \* what is on disk at repo.location, a record:
                \*   dir    "absent", "plain" (a directory, no .git) or "repo"
                \*   wt     the files of the working directory: key -> content
                \*   idx    git's index (the staged files)
                \*   tree   the tree of the HEAD commit
                \*   head   the id of the HEAD commit, 0 when there is none yet
                \*   touched per path, the id of the last commit that changed
                \*          it, 0 when no commit of the history did
                \*   nextId the id the next commit gets (ids are never reused)
    caller,     \* per caller, a record:
                \*   pc      where the caller's goroutine is
                \*   call    the operation in progress and its arguments
                \*   job     where the caller's job is on the worker
                \*   jobRet  what executeBlobManipulationJob returned
                \*   callErr the variable err that the job closure captured
                \*   wg      the counter of the WaitGroup of Enqueue
    worker,     \* per worker goroutine: the caller whose job it runs, or 0
    gitlab,     \* the project on the GitLab service, a record:
                \*   files  the files of the main branch: path -> content
    \* history variables, read by the properties only
    hist,       \* per caller, of the operation in progress, a record:
                \*   execCount  how many times its job function was started
                \*   blobErr    what blobOperation returned
                \*   rolledBack the rollback commands its job has run
                \*   before     the committed state when the operation started
    admitOrder, \* the callers inside Enqueue whose job was received from
                \* the channel, in the order of the receives
    last,       \* the operation that has just returned: its caller, its
                \* arguments, its result and its history; NoLast after any
                \* other step
    addsOnly,   \* only successful AddBlob calls on fresh keys so far
    addedKeys,  \* the keys that a successful AddBlob or CopyBlob stored
    remote,     \* the GitLab client: the position of its life cycle
                \* operation and what it has sent so far
    pool        \* the client pool of the GitLab backend and the callers of
                \* sendRequest, a record:
                \*   idle     the clients in clientPool
                \*   me       where one caller is: "outside", "waiting" in
                \*            clientPool.Get() or "holding" a client
                \*   waiting  how many of the other callers wait in Get()
                \*   holding  how many of the other callers hold a client

localVars == <<repo, caller, worker>>
histVars == <<hist, admitOrder, last, addsOnly, addedKeys>>
vars == <<simFail, localVars, gitlab, remote, pool, histVars>>

----------------------------------------------------------------------------
(* Bounds of the model *)

MaxCommits == 2

(* The goroutines that call the operations *)
Callers == {1, 2}

(* The worker goroutines: init starts exactly one queueProcessor. *)
NumWorkersTwo == 1 + 1
NumWorkers == 1
Workers == 1..NumWorkers

----------------------------------------------------------------------------
(* Values *)

Nil == "nil"
(* A path that holds no file: a value no content equals (a content is a   *)
(* sequence of bytes, 0..255).                                             *)
NoFile == <<-1>>

KeyA == <<"a">>
KeySpA == <<" ", "a">>
KeySlash == <<"a", "/", "b">>

RECURSIVE Contains(_, _)
Contains(s, ch) ==
    IF s = <<>> THEN FALSE
    ELSE IF Head(s) = ch THEN TRUE ELSE Contains(Tail(s), ch)

(* pathToFile: a key containing '/' is rejected *)
pathToFile(key) == IF Contains(key, "/") THEN "invalidkey" ELSE Nil

----------------------------------------------------------------------------
(* The working directory and the git executable (external).  A command     *)
(* maps the repository to the error the code receives and the repository   *)
(* it leaves.                                                              *)

FileKeys == {KeyA, KeySpA}
LocalContents == {<<65>>, <<66>>}

RECURSIVE Prefixes(_)
Prefixes(s) ==
    IF s = <<>> THEN {<<>>} ELSE {s} \cup Prefixes(SubSeq(s, 1, Len(s) - 1))

FileContents == UNION {Prefixes(s) : s \in LocalContents}
NoFiles == [k \in FileKeys |-> NoFile]

AbsentRepo(id) ==
    [dir |-> "absent", wt |-> NoFiles, idx |-> NoFiles, tree |-> NoFiles,
     head |-> 0, touched |-> [k \in FileKeys |-> 0], nextId |-> id]

Result(e, r) == [err |-> e, repo |-> r]

(* ExecuteCommand fails to start when the working directory is missing,   *)
(* and git fails outside a repository.                                    *)
GitUsable(r) == r.dir = "repo"

(* git init *)
GitInit(r) ==
    IF r.dir = "absent" THEN Result("exec", r)
    ELSE Result(Nil, [r EXCEPT !.dir = "repo"])

(* git add -A *)
GitAddAll(r) ==
    IF ~GitUsable(r) THEN Result("git", r)
    ELSE Result(Nil, [r EXCEPT !.idx = r.wt])

(* getCommitCommand: the toggle swaps the verb for an unknown command *)
getCommitCommand(sim) == IF sim THEN "procyon lotor" ELSE "commit"

(* git <verb> -m "<message> by <user>" --author="<user> <<user>>"          *)
(* An unknown verb, an empty author name and an index equal to HEAD's      *)
(* tree ("nothing to commit") all fail and create no commit.              *)
GitCommit(r, verb, user) ==
    IF verb # "commit" \/ ~GitUsable(r) \/ user = "" \/ r.idx = r.tree
    THEN Result("git", r)
    ELSE Result(Nil, [r EXCEPT !.tree = r.idx, !.head = r.nextId,
                               !.touched = [k \in FileKeys |->
                                              IF r.idx[k] # r.tree[k]
                                              THEN r.nextId ELSE r.touched[k]],
                               !.nextId = r.nextId + 1])

(* git reset --hard HEAD: fails when HEAD names no commit; otherwise the   *)
(* index and the tracked files become HEAD's, untracked files stay.        *)
GitResetHardHead(r) ==
    IF ~GitUsable(r) \/ r.head = 0 THEN Result("git", r)
    ELSE Result(Nil,
           [r EXCEPT !.idx = r.tree,
                     !.wt = [k \in FileKeys |->
                               IF r.tree[k] # NoFile THEN r.tree[k]
                               ELSE IF r.idx[k] # NoFile THEN NoFile
                               ELSE r.wt[k]]])

(* git clean -qfdx: removes the files the index does not hold *)
GitClean(r) ==
    IF ~GitUsable(r) THEN Result("git", r)
    ELSE Result(Nil,
           [r EXCEPT !.wt = [k \in FileKeys |->
                               IF r.idx[k] = NoFile THEN NoFile ELSE r.wt[k]]])

(* git status: CheckStatus looks for "nothing to commit, working tree      *)
(* clean", which git prints only when HEAD names a commit.                 *)
GitStatusClean(r) == r.head # 0 /\ r.idx = r.tree /\ r.wt = r.idx

(* git ls-tree -r HEAD --name-only: one line per file of HEAD's tree, in   *)
(* byte order of the names                                                 *)
NameOrder == <<KeySpA, KeyA>>
InTree(r) == [k \in FileKeys |-> r.tree[k] # NoFile]
LsTreeHead(r) ==
    LET held == InTree(r)
        Held(k) == held[k]
    IN SelectSeq(NameOrder, Held)

----------------------------------------------------------------------------
(* The blob file operations.  Each is the set of outcomes the file system  *)
(* can produce: the error returned and the working directory left.         *)

WithFile(r, key, content) == [r EXCEPT !.wt[key] = content]

(* os.MkdirAll(filepath.Dir(path)): creates the location when it is missing *)
MkdirAll(r) == IF r.dir = "absent" THEN [r EXCEPT !.dir = "plain"] ELSE r

(* createBlob: MkdirAll twice, then os.WriteFile.  A failed write leaves   *)
(* no file change (the open failed) or a file cut short.                   *)
createBlob(r, key, content) ==
    IF pathToFile(key) # Nil THEN {Result(pathToFile(key), r)}
    ELSE {Result(Nil, WithFile(MkdirAll(r), key, content))}
         \cup {Result("io", r)}
         \cup {Result("io", WithFile(MkdirAll(r), key, p)) :
                 p \in Prefixes(content) \ {content}}

(* copyBlobContents: os.Open(src), os.Create(dst) (which truncates dst),  *)
(* io.Copy, Sync.  With src = dst the file is truncated before it is read. *)
copyBlobContents(r, src, dst) ==
    IF r.wt[src] = NoFile THEN {Result("io", r)}
    ELSE LET data == IF src = dst THEN <<>> ELSE r.wt[src]
         IN {Result(Nil, WithFile(r, dst, data))}
            \cup {Result("io", r)}
            \cup {Result("io", WithFile(r, dst, p)) :
                    p \in Prefixes(data) \ {data}}

(* vcblobstore.ErrBlobNotFound, and the error os.Remove returns for a path  *)
(* that holds no file: a *PathError that wraps ENOENT                      *)
ErrBlobNotFound == "ErrBlobNotFound"
RemoveMissing == "PathError ENOENT"

(* deleteBlob: `removeFileErr == os.ErrNotExist`, a comparison of the      *)
(* error value itself with the sentinel                                    *)
IsErrNotExist(removeFileErr) == removeFileErr = "os.ErrNotExist"

(* deleteBlob: pathToFile, then os.Remove.  The comparison with            *)
(* os.ErrNotExist never holds for the *PathError os.Remove returns, so a   *)
(* missing file yields the plain wrapped error.                            *)
deleteBlob(r, key) ==
    IF pathToFile(key) # Nil THEN {Result(pathToFile(key), r)}
    ELSE IF r.wt[key] = NoFile
    THEN {Result(IF IsErrNotExist(RemoveMissing) THEN ErrBlobNotFound
                 ELSE RemoveMissing, r)}
    ELSE {Result(Nil, WithFile(r, key, NoFile)), Result("io", r)}

(* the closure blobOperation that each of AddBlob, CopyBlob, DeleteBlob    *)
(* builds                                                                  *)
blobOperation(r, cl) ==
    CASE cl.op = "AddBlob" -> createBlob(r, cl.key, cl.content)
      [] cl.op = "CopyBlob" -> copyBlobContents(r, cl.src, cl.key)
      [] cl.op = "DeleteBlob" -> deleteBlob(r, cl.key)

----------------------------------------------------------------------------
(* What the read operations return.  The result of an operation is a       *)
(* record: ok (no error was returned) and the value.                       *)

Failed(zero) == [ok |-> FALSE, val |-> zero]
Value(v) == [ok |-> TRUE, val |-> v]

(* the repository as its HEAD commit has it: the index and the working    *)
(* directory hold exactly HEAD's tree                                      *)
CommittedState(r) == [r EXCEPT !.wt = r.tree, !.idx = r.tree]

(* GetBlob: pathToFile, then os.ReadFile of the working directory's file *)
GetBlobResult(r, key) ==
    IF pathToFile(key) # Nil THEN Failed(<<>>)
    ELSE IF r.wt[key] = NoFile THEN Failed(<<>>)
    ELSE Value(r.wt[key])

(* CheckStatus: git status, then strings.Contains(cleanStatusMessageTail) *)
CheckStatusResult(r) ==
    IF ~GitUsable(r) THEN Failed(FALSE) ELSE Value(GitStatusClean(r))

(* GetStateID: git rev-parse HEAD, which fails when there is no commit *)
GetStateIDResult(r) ==
    IF ~GitUsable(r) \/ r.head = 0 THEN Failed(0) ELSE Value(r.head)

(* GetVersionFor: pathToFile, then git log -n 1 --pretty=format:%H -- path, *)
(* which fails when there is no commit and prints nothing (the value 0     *)
(* stands for the empty string) when no commit changed the path            *)
GetVersionForResult(r, key) ==
    IF pathToFile(key) # Nil THEN Failed(0)
    ELSE IF ~GitUsable(r) \/ r.head = 0 THEN Failed(0)
    ELSE Value(r.touched[key])

(* GetVersionMetadata: git show --quiet --format=fuller without the commit  *)
(* id, hence of HEAD whatever commitId is; it fails when there is no       *)
(* commit.  Time is the order of the commits: the commit with id n is made *)
(* at time n, and that is its CommitDate.                                  *)
MetadataOfToken(r, commitId) ==
    IF ~GitUsable(r) \/ commitId > r.head THEN Failed([CommitDate |-> 0])
    ELSE Value([CommitDate |-> commitId])
GetVersionMetadataResult(r, commitId) ==
    IF ~GitUsable(r) \/ r.head = 0 THEN Failed([CommitDate |-> 0])
    ELSE Value([CommitDate |-> r.head])

IsSpace(ch) == ch \in {" ", "\t", "\n", "\r"}

(* strings.TrimSpace *)
RECURSIVE TrimLeft(_)
TrimLeft(s) ==
    IF s # <<>> /\ IsSpace(Head(s)) THEN TrimLeft(Tail(s)) ELSE s

RECURSIVE TrimRight(_)
TrimRight(s) ==
    IF s # <<>> /\ IsSpace(s[Len(s)])
    THEN TrimRight(SubSeq(s, 1, Len(s) - 1)) ELSE s

TrimSpace(s) == TrimRight(TrimLeft(s))

(* ListBlobKeys, the loop over the output lines: each line trimmed, the    *)
(* empty ones dropped                                                      *)
RECURSIVE TrimmedLines(_)
TrimmedLines(lines) ==
    IF lines = <<>> THEN <<>>
    ELSE LET trimmedLine == TrimSpace(Head(lines))
         IN IF Len(trimmedLine) > 0
            THEN <<trimmedLine>> \o TrimmedLines(Tail(lines))
            ELSE TrimmedLines(Tail(lines))

(* ListBlobKeys: git ls-tree -r HEAD --name-only, fails without a commit *)
ListBlobKeysResult(r) ==
    IF ~GitUsable(r) \/ r.head = 0 THEN Failed(<<>>)
    ELSE Value(TrimmedLines(LsTreeHead(r)))

----------------------------------------------------------------------------
(* The state of a caller and the start and the end of an operation         *)

BlobOps == {"AddBlob", "CopyBlob", "DeleteBlob"}
ReadOps == {"GetBlob", "CheckStatus", "GetStateID", "ListBlobKeys",
            "GetVersionFor"}
LifeOps == {"CreateRepository", "DeleteRepository", "ResetRepository"}
Users == {"ux"}

NoCall == [op |-> "none", key |-> <<>>, src |-> <<>>, content |-> <<>>,
           user |-> ""]

Committed(r, key) ==
    [stateID |-> GetStateIDResult(r), nextId |-> r.nextId,
     listed |-> key \in FileKeys /\ r.tree[key] # NoFile,
     status |-> CheckStatusResult(r)]

Idle == [pc |-> "idle", call |-> NoCall, job |-> "none", jobRet |-> Nil,
         callErr |-> Nil, wg |-> 0]
NoHist == [execCount |-> 0, blobErr |-> Nil, rolledBack |-> <<>>,
           before |-> Committed(AbsentRepo(1), <<>>),
           was |-> AbsentRepo(1), trail |-> <<>>, deleteErr |-> Nil]
NoLast == [op |-> "none"]

(* NewGitlabRepositoryClient: the pool is filled with poolSize clients *)
poolSize == 20
PoolInit == [idle |-> poolSize, me |-> "outside", waiting |-> 0, holding |-> 0]

(* the GitLab client between two life cycle operations.  Beside the       *)
(* position and retryCount, the history of the operation: the creation    *)
(* and deletion requests sent, the error of ResetRepository's delete, the *)
(* conflict the latest creation request was answered with, the deletion   *)
(* requests sent since, and both as they were when that request was sent. *)
RemoteIdle ==
    [pc |-> "idle", op |-> "none", retryCount |-> 0, creates |-> 0,
     deletes |-> 0, deleteErr |-> Nil, answer |-> "none", healed |-> 0,
     sentAfter |-> [answer |-> "none", healed |-> 0]]

Init ==
    /\ simFail = FALSE
    /\ repo \in {AbsentRepo(1), [AbsentRepo(1) EXCEPT !.dir = "repo"]}
    /\ caller = [c \in Callers |-> Idle]
    /\ worker = [w \in Workers |-> 0]
    /\ hist = [c \in Callers |-> NoHist]
    /\ admitOrder = <<>>
    /\ last = NoLast
    /\ addsOnly = (repo.dir = "repo")
    /\ addedKeys = {}
    /\ gitlab = [files |-> NoFiles, project |-> "present"]
    /\ remote = RemoteIdle
    /\ pool = PoolInit

(* os.Setenv of the failure-simulation toggle, between operations *)
SetSimulateFailure ==
    /\ \A c \in Callers : caller[c].pc = "idle"
    /\ simFail' = ~simFail
    /\ last' = NoLast
    /\ UNCHANGED <<gitlab, remote, pool, repo, caller, worker, hist,
                   admitOrder, addsOnly, addedKeys>>

(* The operation cl of caller c returns ret: the caller is idle again. *)
Return(c, cl, ret, h) ==
    /\ last' = [op |-> cl.op, caller |-> c, call |-> cl, ret |-> ret,
                job |-> caller[c].job, jobRet |-> caller[c].jobRet,
                hist |-> h]
    /\ addsOnly' = (addsOnly /\ cl.op = "AddBlob" /\ ret = Nil
                             /\ h.blobErr = Nil /\ cl.key \notin addedKeys)
    /\ addedKeys' = IF cl.op \in {"AddBlob", "CopyBlob"} /\ ret = Nil
                    THEN addedKeys \cup {cl.key} ELSE addedKeys

(* A mutating operation may start while commit ids are left. *)
MayStart(c) == caller[c].pc = "idle" /\ repo.nextId <= MaxCommits

(* Enqueue, first half: wg.Add(1), then the caller blocks on the send. *)
Submit(c, cl) ==
    /\ MayStart(c)
    /\ caller' = [caller EXCEPT ![c] =
                    [Idle EXCEPT !.pc = "send", !.call = cl, !.wg = 1]]
    /\ hist' = [hist EXCEPT ![c] =
                  [NoHist EXCEPT !.before = Committed(repo, cl.key)]]
    /\ last' = NoLast
    /\ UNCHANGED <<gitlab, remote, pool, simFail, repo, worker, admitOrder,
                   addsOnly, addedKeys>>

(* The operation returns pathErr before anything else happens. *)
Reject(c, cl, pathErr) ==
    /\ MayStart(c)
    /\ Return(c, cl, pathErr,
              [NoHist EXCEPT !.before = Committed(repo, cl.key)])
    /\ UNCHANGED <<gitlab, remote, pool, simFail, repo, caller, worker, hist,
                   admitOrder>>

(* AddBlob: pathToFile, then Enqueue of the job *)
AddBlob(c, key, content, user) ==
    LET cl == [op |-> "AddBlob", key |-> key, src |-> <<>>,
               content |-> content, user |-> user]
    IN IF pathToFile(key) # Nil THEN Reject(c, cl, pathToFile(key))
       ELSE Submit(c, cl)

(* CopyBlob: pathToFile of both keys, then Enqueue of the job *)
CopyBlob(c, src, dst, user) ==
    LET cl == [op |-> "CopyBlob", key |-> dst, src |-> src,
               content |-> <<>>, user |-> user]
    IN IF pathToFile(src) # Nil THEN Reject(c, cl, pathToFile(src))
       ELSE IF pathToFile(dst) # Nil THEN Reject(c, cl, pathToFile(dst))
       ELSE Submit(c, cl)

(* DeleteBlob: Enqueue of the job; the key is checked inside the job *)
DeleteBlob(c, key, user) ==
    Submit(c, [op |-> "DeleteBlob", key |-> key, src |-> <<>>,
               content |-> <<>>, user |-> user])

----------------------------------------------------------------------------
(* The job serializer (job_queue.go) and executeBlobManipulationJob        *)

(* queueProcessor: `for job := range in` receives the next job only when   *)
(* the previous call job() has returned.  The channel is unbuffered: the   *)
(* send of Enqueue completes with this receive, and the caller goes on to  *)
(* wg.Wait().                                                              *)
NeverBusy(w) == TRUE
(* no goroutine receives from the channel *)
NoQueueProcessor(w) == FALSE

WorkerFree(w) == worker[w] = 0

Receive(w, c) ==
    /\ WorkerFree(w)
    /\ caller[c].pc = "send"
    /\ worker' = [worker EXCEPT ![w] = c]
    /\ caller' = [caller EXCEPT ![c].pc = "wait", ![c].job = "blobop"]
    /\ hist' = [hist EXCEPT ![c].execCount = @ + 1]
    /\ admitOrder' = Append(admitOrder, c)
    /\ last' = NoLast
    /\ UNCHANGED <<gitlab, remote, pool, simFail, repo, addsOnly, addedKeys>>

(* executeBlobManipulationJob, `if err != err` after blobOperation() *)
BlobFailureDetected(err) == err # err

(* executeBlobManipulationJob, the deferred function: `if err != nil` *)
NeedsRollback(err) == err # Nil

(* Where the job goes when executeBlobManipulationJob returns: the         *)
(* deferred function runs the rollback first when err is set.              *)
AfterReturn(err) == IF NeedsRollback(err) THEN "reset" ELSE "finish"

(* A step of the job that worker w runs: the repository it leaves, the     *)
(* next place of the job, and what the job returns (when it returns).      *)
JobStep(w, at, r, to, ret) ==
    LET c == worker[w] IN
    /\ c # 0
    /\ caller[c].job = at
    /\ repo' = r
    /\ caller' = [caller EXCEPT ![c].job = to, ![c].jobRet = ret]
    /\ last' = NoLast
    /\ UNCHANGED <<gitlab, remote, pool, simFail, worker, admitOrder,
                   addsOnly, addedKeys>>

(* executeBlobManipulationJob: err = blobOperation() *)
JobBlobOperation(w) ==
    /\ worker[w] # 0
    /\ \E res \in blobOperation(repo, caller[worker[w]].call) :
         /\ IF BlobFailureDetected(res.err)
            THEN JobStep(w, "blobop", res.repo, AfterReturn(res.err),
                         "failed blob operation")
            ELSE JobStep(w, "blobop", res.repo, "add", Nil)
         /\ hist' = [hist EXCEPT ![worker[w]].blobErr = res.err]

(* What executeBlobManipulationJob returns after `git add -A` *)
AddReturn(err) == IF err # Nil THEN "failed to add files to index" ELSE Nil

(* executeBlobManipulationJob: out, err = git add -A *)
JobAdd(w) ==
    LET res == GitAddAll(repo)
    IN /\ JobStep(w, "add", res.repo,
                  IF res.err # Nil THEN AfterReturn(res.err) ELSE "commit",
                  AddReturn(res.err))
       /\ UNCHANGED hist

(* What executeBlobManipulationJob returns after the commit command:       *)
(* a wrapped error, or err itself (nil) at the final `return err`.         *)
CommitErrorDropped(err) == Nil
CommitReturn(err) == IF err # Nil THEN "failed to commit" ELSE err

(* executeBlobManipulationJob: out, err = git <commit verb> ... *)
JobCommit(w) ==
    LET res == GitCommit(repo, getCommitCommand(simFail),
                         caller[worker[w]].call.user)
    IN /\ worker[w] # 0
       /\ JobStep(w, "commit", res.repo, AfterReturn(res.err),
                  CommitReturn(res.err))
       /\ UNCHANGED hist

(* rollback, first command: git reset --hard HEAD; its error is dropped *)
JobRollbackReset(w) ==
    /\ worker[w] # 0
    /\ JobStep(w, "reset", GitResetHardHead(repo).repo, "clean",
               caller[worker[w]].jobRet)
    /\ hist' = [hist EXCEPT ![worker[w]].rolledBack = Append(@, "reset")]

(* rollback, second command: git clean -qfdx; its error is dropped *)
JobRollbackClean(w) ==
    /\ worker[w] # 0
    /\ JobStep(w, "clean", GitClean(repo).repo, "finish",
               caller[worker[w]].jobRet)
    /\ hist' = [hist EXCEPT ![worker[w]].rolledBack = Append(@, "clean")]

(* The job closure stores the result in the caller's err, the wrapper of   *)
(* Enqueue calls wg.Done(), and the worker returns to its receive.         *)
JobFinish(w) ==
    LET c == worker[w] IN
    /\ c # 0
    /\ caller[c].job = "finish"
    /\ caller' = [caller EXCEPT ![c].job = "finished",
                                ![c].callErr = caller[c].jobRet,
                                ![c].wg = 0]
    /\ worker' = [worker EXCEPT ![w] = 0]
    /\ last' = NoLast
    /\ UNCHANGED <<gitlab, remote, pool, simFail, repo, hist, admitOrder,
                   addsOnly, addedKeys>>

(* Enqueue, wg.Wait(): returns when the counter is zero *)
NoWait(c) == TRUE
WaitReturns(c) == caller[c].wg = 0

(* Enqueue returns; AddBlob, CopyBlob or DeleteBlob wraps err and returns *)
EnqueueReturns(c) ==
    /\ caller[c].pc = "wait"
    /\ WaitReturns(c)
    /\ Return(c, caller[c].call, caller[c].callErr, hist[c])
    /\ caller' = [caller EXCEPT ![c] = Idle]
    /\ hist' = [hist EXCEPT ![c] = NoHist]
    /\ admitOrder' = SelectSeq(admitOrder, LAMBDA x : x # c)
    /\ UNCHANGED <<gitlab, remote, pool, simFail, repo, worker>>

----------------------------------------------------------------------------
(* The read operations: one file read or one git command each, issued by   *)
(* the caller's own goroutine, not through the serializer.  The history    *)
(* keeps, beside the result, what the same read returns on the committed   *)
(* state.                                                                  *)

(* a read that empties the working tree *)
ReadAndRemove(c, op, key, res, committed) ==
    /\ caller[c].pc = "idle"
    /\ last' = [op |-> op, caller |-> c, key |-> key, res |-> res,
                committed |-> committed]
    /\ repo' = [repo EXCEPT !.wt = NoFiles]
    /\ UNCHANGED <<gitlab, remote, pool, simFail, caller, worker, hist,
                   admitOrder, addsOnly, addedKeys>>

Read(c, op, key, res, committed) ==
    /\ caller[c].pc = "idle"
    /\ last' = [op |-> op, caller |-> c, key |-> key, res |-> res,
                committed |-> committed]
    /\ UNCHANGED <<gitlab, remote, pool, simFail, repo, caller, worker, hist,
                   admitOrder, addsOnly, addedKeys>>

GetBlob(c, key) ==
    Read(c, "GetBlob", key, GetBlobResult(repo, key),
         GetBlobResult(CommittedState(repo), key))

CheckStatus(c) ==
    Read(c, "CheckStatus", <<>>, CheckStatusResult(repo),
         CheckStatusResult(CommittedState(repo)))

GetStateID(c) ==
    Read(c, "GetStateID", <<>>, GetStateIDResult(repo),
         GetStateIDResult(CommittedState(repo)))

ListBlobKeys(c) ==
    Read(c, "ListBlobKeys", <<>>, ListBlobKeysResult(repo),
         ListBlobKeysResult(CommittedState(repo)))

GetVersionFor(c, key) ==
    Read(c, "GetVersionFor", key, GetVersionForResult(repo, key),
         GetVersionForResult(CommittedState(repo), key))

(* GetVersionMetadata of a version token (a commit id) *)
GetVersionMetadata(c, commitId) ==
    Read(c, "GetVersionMetadata", commitId,
         GetVersionMetadataResult(repo, commitId),
         GetVersionMetadataResult(CommittedState(repo), commitId))

----------------------------------------------------------------------------
(* The repository life cycle: run by the caller's own goroutine, not       *)
(* through the serializer, one external command or system call per step.   *)

(* os.RemoveAll(repo.location): nil when the location does not exist;     *)
(* when it fails the location is still there                               *)
RemoveAllResult(r) ==
    IF r.dir = "absent" THEN {Result(Nil, r)}
    ELSE {Result(Nil, AbsentRepo(r.nextId)), Result("removeall", r)}

(* GitRepoLocationExists: os.Stat of the location *)
NeverExists(r) == FALSE
GitRepoLocationExists(r) == r.dir # "absent"

(* LocationHasRepo: when the location exists `git init` is run in it as a  *)
(* probe (which makes a repository of a plain directory): its success      *)
(* means true, a failure without "not a git repository" is a panic.        *)
LocationHasRepoResult(r) ==
    IF GitRepoLocationExists(r)
    THEN [res |-> GitInit(r).err = Nil, panic |-> GitInit(r).err # Nil,
          repo |-> GitInit(r).repo]
    ELSE [res |-> FALSE, panic |-> FALSE, repo |-> r]

(* initMaybe: `if !repo.LocationHasRepo()` *)
AlwaysCreate(hasRepo) == TRUE
NeedsCreate(hasRepo) == ~hasRepo

(* ResetRepository: `if deleteRepoErr != nil { panic(deleteRepoErr) }` *)
NeverFatal(deleteRepoErr) == FALSE
DeleteFailedFatal(deleteRepoErr) == deleteRepoErr # Nil

(* a panic ends the process: nothing runs after it *)
Panicked ==
    \/ \E c \in Callers : caller[c].pc = "panic"
    \/ remote.pc = "panic"

(* CreateRepository calls initMaybe, ResetRepository calls                 *)
(* DeleteRepository first, DeleteRepository calls os.RemoveAll.  The       *)
(* history h keeps the steps taken and, where one caller runs, the         *)
(* repository as it was at the call.                                       *)
StartLife(c, op, h) ==
    /\ MayStart(c)
    /\ caller' = [caller EXCEPT ![c] =
                    [Idle EXCEPT !.call = [NoCall EXCEPT !.op = op],
                                 !.pc = IF op = "CreateRepository"
                                        THEN "hasrepo" ELSE "removeall"]]
    /\ hist' = [hist EXCEPT ![c] = h]
    /\ last' = NoLast
    /\ UNCHANGED <<gitlab, remote, pool, simFail, repo, worker, admitOrder,
                   addsOnly, addedKeys>>

LifeStep(c, at, r, to, e) ==
    /\ caller[c].pc = at
    /\ repo' = r
    /\ caller' = [caller EXCEPT ![c].pc = to]
    /\ hist' = [hist EXCEPT ![c].trail = Append(@, at),
                            ![c].deleteErr = e]
    /\ last' = NoLast
    /\ UNCHANGED <<gitlab, remote, pool, simFail, worker, admitOrder,
                   addsOnly, addedKeys>>

LifeReturn(c, at, r, ret) ==
    /\ caller[c].pc = at
    /\ repo' = r
    /\ Return(c, caller[c].call, ret,
              [hist[c] EXCEPT !.trail = Append(@, at)])
    /\ caller' = [caller EXCEPT ![c] = Idle]
    /\ hist' = [hist EXCEPT ![c] = NoHist]
    /\ UNCHANGED <<gitlab, remote, pool, simFail, worker, admitOrder>>

(* DeleteRepository: os.RemoveAll(repo.location); ResetRepository panics   *)
(* on its error and goes on to CreateRepository otherwise.                 *)
RemoveAll(c) ==
    \E out \in RemoveAllResult(repo) :
        IF caller[c].call.op = "ResetRepository"
        THEN IF DeleteFailedFatal(out.err)
             THEN LifeStep(c, "removeall", out.repo, "panic", out.err)
             ELSE LifeStep(c, "removeall", out.repo, "hasrepo", out.err)
        ELSE LifeReturn(c, "removeall", out.repo, out.err)

(* initMaybe: LocationHasRepo, then createInitializeGitRepo when it is     *)
(* false                                                                   *)
initMaybe(c) ==
    LET has == LocationHasRepoResult(repo)
    IN IF has.panic
       THEN LifeStep(c, "hasrepo", has.repo, "panic", hist[c].deleteErr)
       ELSE IF NeedsCreate(has.res)
       THEN LifeStep(c, "hasrepo", has.repo, "rm", hist[c].deleteErr)
       ELSE LifeReturn(c, "hasrepo", has.repo, Nil)

(* createInitializeGitRepo: rm -rf location *)
CreateRm(c) ==
    LifeStep(c, "rm", AbsentRepo(repo.nextId), "mkdir", hist[c].deleteErr)

(* createInitializeGitRepo: mkdir -p location *)
CreateMkdir(c) ==
    LifeStep(c, "mkdir", MkdirAll(repo), "init", hist[c].deleteErr)

(* createInitializeGitRepo: git init in location *)
CreateInit(c) ==
    LET res == GitInit(repo)
    IN LifeReturn(c, "init", res.repo,
                  IF res.err # Nil THEN "failed to create git repo" ELSE Nil)

(* LocationHasRepo called on its own *)
LocationHasRepo(c) ==
    /\ caller[c].pc = "idle"
    /\ ~LocationHasRepoResult(repo).panic
    /\ repo' = LocationHasRepoResult(repo).repo
    /\ last' = [op |-> "LocationHasRepo", caller |-> c,
                res |-> LocationHasRepoResult(repo).res, was |-> repo]
    /\ UNCHANGED <<gitlab, remote, pool, simFail, caller, worker, hist,
                   admitOrder, addsOnly, addedKeys>>

----------------------------------------------------------------------------
(* The GitLab backend (package gitlab, src/git/commit.go)                  *)

(* encoding/base64, StdEncoding: the alphabet and the padding character *)
encodeStd ==
    <<"A", "B", "C", "D", "E", "F", "G", "H", "I", "J", "K", "L", "M",
      "N", "O", "P", "Q", "R", "S", "T", "U", "V", "W", "X", "Y", "Z",
      "a", "b", "c", "d", "e", "f", "g", "h", "i", "j", "k", "l", "m",
      "n", "o", "p", "q", "r", "s", "t", "u", "v", "w", "x", "y", "z",
      "0", "1", "2", "3", "4", "5", "6", "7", "8", "9", "+", "/">>
StdPadding == "="

(* base64.StdEncoding.EncodeToString: three bytes give four characters,    *)
(* a last group of one or two bytes is padded.                             *)
RECURSIVE EncodeToString(_)
EncodeToString(src) ==
    IF Len(src) = 0 THEN <<>>
    ELSE IF Len(src) = 1
    THEN <<encodeStd[(src[1] \div 4) + 1],
           encodeStd[((src[1] % 4) * 16) + 1],
           StdPadding, StdPadding>>
    ELSE IF Len(src) = 2
    THEN <<encodeStd[(src[1] \div 4) + 1],
           encodeStd[((src[1] % 4) * 16) + (src[2] \div 16) + 1],
           encodeStd[((src[2] % 16) * 4) + 1],
           StdPadding>>
    ELSE <<encodeStd[(src[1] \div 4) + 1],
           encodeStd[((src[1] % 4) * 16) + (src[2] \div 16) + 1],
           encodeStd[((src[2] % 16) * 4) + (src[3] \div 64) + 1],
           encodeStd[(src[3] % 64) + 1]>>
         \o EncodeToString(SubSeq(src, 4, Len(src)))

(* the value of a character of the alphabet, -1 for any other character *)
DecodeMap(ch) ==
    IF \E i \in 1..64 : encodeStd[i] = ch
    THEN (CHOOSE i \in 1..64 : encodeStd[i] = ch) - 1
    ELSE -1

(* base64.StdEncoding.DecodeString: groups of four characters; padding is  *)
(* accepted in the last group only, and the bits it cuts must be zero.     *)
RECURSIVE DecodeString(_)
DecodeString(str) ==
    IF Len(str) = 0 THEN Value(<<>>)
    ELSE IF Len(str) < 4 THEN Failed(<<>>)
    ELSE LET a == DecodeMap(str[1])
             b == DecodeMap(str[2])
             c == DecodeMap(str[3])
             d == DecodeMap(str[4])
             rest == DecodeString(SubSeq(str, 5, Len(str)))
         IN IF a < 0 \/ b < 0 THEN Failed(<<>>)
            ELSE IF str[3] = StdPadding
            THEN IF str[4] = StdPadding /\ Len(str) = 4
                 THEN Value(<<(a * 4) + (b \div 16)>>)
                 ELSE Failed(<<>>)
            ELSE IF c < 0 THEN Failed(<<>>)
            ELSE IF str[4] = StdPadding
            THEN IF Len(str) = 4
                 THEN Value(<<(a * 4) + (b \div 16),
                              ((b % 16) * 16) + (c \div 4)>>)
                 ELSE Failed(<<>>)
            ELSE IF d < 0 \/ ~rest.ok THEN Failed(<<>>)
            ELSE Value(<<(a * 4) + (b \div 16),
                         ((b % 16) * 16) + (c \div 4),
                         ((c % 4) * 64) + d>> \o rest.val)

(* the contents a caller passes: the byte strings up to MaxLen *)
MaxLen == 3
Bytes == {0, 65, 255}
RemoteContents == UNION {[1..n -> Bytes] : n \in 0..MaxLen}

(* a JSON null, for the pointer fields of commitAction *)
Null == <<"null">>

(* createCommitBody with the content of every action encoded *)
encodeEveryContent(action, filePath, content) ==
    [action |-> action, file_path |-> filePath,
     content |-> EncodeToString(content), encoding |-> "base64"]

(* createCommitBody, for one action: the content is encoded, and the       *)
(* encoding named, only when `len(actionIn.Content) > 1`.                  *)
createCommitBody(action, filePath, content) ==
    [action |-> action, file_path |-> filePath,
     content |-> IF Len(content) > 1 THEN EncodeToString(content) ELSE Null,
     encoding |-> IF Len(content) > 1 THEN "base64" ELSE "null"]

Response(e, status, g) == [err |-> e, status |-> status, gitlab |-> g]

(* The service (external), POST /projects/:id/repository/commits with one  *)
(* action.  "create" needs a path that holds no file and stores the        *)
(* decoded content; without a content the service stores an empty file or  *)
(* refuses the request.  "delete" needs a path that holds a file.  The     *)
(* request can also fail in transport, before the service acts.            *)
PostCommit(g, act) ==
    {Response("transport", 0, g)} \cup
    CASE act.action = "create" /\ g.files[act.file_path] # NoFile ->
           {Response(Nil, 400, g)}
      [] act.action = "create" /\ g.files[act.file_path] = NoFile
                               /\ act.content = Null ->
           {Response(Nil, 201, [g EXCEPT !.files[act.file_path] = <<>>]),
            Response(Nil, 400, g)}
      [] act.action = "create" /\ g.files[act.file_path] = NoFile
                               /\ act.content # Null ->
           IF act.encoding = "base64" /\ DecodeString(act.content).ok
           THEN {Response(Nil, 201,
                   [g EXCEPT !.files[act.file_path] =
                                DecodeString(act.content).val])}
           ELSE {Response(Nil, 400, g)}
      [] act.action = "delete" ->
           IF g.files[act.file_path] = NoFile THEN {Response(Nil, 400, g)}
           ELSE {Response(Nil, 201,
                   [g EXCEPT !.files[act.file_path] = NoFile])}

(* sendRequest after client.Do has returned the answer: reading the body   *)
(* or parsing the RateLimit-Remaining header can fail, and then the status *)
(* is returned with an error.                                              *)
AfterAnswer(resp) ==
    IF resp.err # Nil THEN {resp}
    ELSE {resp, [resp EXCEPT !.err = "failed to read body"],
          [resp EXCEPT !.err = "failed to parse header"]}

(* commit: `os.Getenv(git.SimulateGitCommitFailureEnvvarName) == "true"` *)
NeverSimulated(sim) == FALSE
SimulateCommitFailure(sim) == sim

(* commit: the toggle fails it before any request; else one POST with the  *)
(* actions, and `err != nil || statusCode != 201` is the failure.  The     *)
(* result names the requests sent, each by its list of actions.            *)
commit(g, sim, act) ==
    IF SimulateCommitFailure(sim)
    THEN {[err |-> "simulate git commit failure", repo |-> g, sent |-> <<>>]}
    ELSE {[err |-> IF ret.err # Nil \/ ret.status # 201
                   THEN "failed to commit to GitLab repo" ELSE Nil,
           repo |-> ret.gitlab, sent |-> <<<<act>>>>] :
            ret \in UNION {AfterAnswer(resp) : resp \in PostCommit(g, act)}}

(* The service (external), GET /projects/:id/repository/files/:path: the   *)
(* stored content, base64-encoded, with the encoding named.                *)
GetFile(g, filePath) ==
    IF g.files[filePath] = NoFile
    THEN [status |-> 404, encoding |-> "", content |-> <<>>]
    ELSE [status |-> 200, encoding |-> "base64",
          content |-> EncodeToString(g.files[filePath])]

(* Gitlab.GetBlob: the status, the encoding, then DecodeString *)
GitlabGetBlobResult(g, key) ==
    LET respFileItem == GetFile(g, key)
    IN IF respFileItem.status # 200 THEN Failed(<<>>)
       ELSE IF respFileItem.encoding # "base64" THEN Failed(<<>>)
       ELSE DecodeString(respFileItem.content)

(* A remote operation is one request: it acts and returns in one step. *)
GitlabReturn(op, key, content, res) ==
    /\ last' = [op |-> op, key |-> key, content |-> content, ret |-> res.err,
                before |-> gitlab, sent |-> res.sent]
    /\ gitlab' = res.repo
    /\ UNCHANGED <<remote, pool, simFail, repo, caller, worker, hist,
                   admitOrder, addsOnly, addedKeys>>

(* Gitlab.AddBlob: commit with one create action *)
GitlabAddBlob(key, content) ==
    \E res \in commit(gitlab, simFail,
                      createCommitBody("create", key, content)) :
        GitlabReturn("GitlabAddBlob", key, content, res)

(* Gitlab.DeleteBlob: commit with one delete action, without content *)
GitlabDeleteBlob(key) ==
    \E res \in commit(gitlab, simFail,
                      createCommitBody("delete", key, <<>>)) :
        GitlabReturn("GitlabDeleteBlob", key, <<>>, res)

(* Gitlab.GetBlob *)
GitlabGetBlob(key) ==
    /\ last' = [op |-> "GitlabGetBlob", key |-> key,
                res |-> GitlabGetBlobResult(gitlab, key)]
    /\ UNCHANGED <<gitlab, remote, pool, simFail, repo, caller, worker, hist,
                   admitOrder, addsOnly, addedKeys>>

(* The life cycle of the GitLab project *)

gitlabRepoHasAlreadyBeenTaken == "has already been taken"
StillBeingDeleted ==
    "The project is still being deleted. Please try again later."
transientGitlabRepoCreationErrMessages ==
    {StillBeingDeleted, gitlabRepoHasAlreadyBeenTaken}

(* strings.Contains(body, fragment), a body being the sequence of its      *)
(* phrases                                                                 *)
ContainsFragment(body, fragment) == \E i \in DOMAIN body : body[i] = fragment

isTransientGitlabRepoCreationErrMessage(message) ==
    \E fragment \in transientGitlabRepoCreationErrMessages :
        ContainsFragment(message, fragment)

(* what sendRequest returns, and the service after the request *)
Reply(e, status, body, g) ==
    [err |-> e, status |-> status, body |-> body, gitlab |-> g]

(* The service (external), POST /projects: 201 creates the project where   *)
(* there is none.  The conflict answers, a 400 of another kind and a       *)
(* server error can come in any state of the project (the service is not   *)
(* assumed to answer consistently), and the request can fail in transport. *)
PostProject(g) ==
    {Reply("transport", 0, <<>>, g),
     Reply(Nil, 500, <<"error">>, g),
     Reply(Nil, 400, <<"message", "path", "is invalid">>, g),
     Reply(Nil, 400, <<"message", "path", gitlabRepoHasAlreadyBeenTaken>>, g),
     Reply(Nil, 400, <<"message", StillBeingDeleted>>, g)}
    \cup IF g.project = "absent"
         THEN {Reply(Nil, 201, <<"id">>, [g EXCEPT !.project = "present"])}
         ELSE {}

(* The service (external), DELETE /projects/:id: 202 schedules the         *)
(* deletion of a project, 404 when there is none; a project being deleted  *)
(* gives either.                                                           *)
DeleteProject(g) ==
    {Reply("transport", 0, <<>>, g), Reply(Nil, 500, <<"error">>, g)}
    \cup CASE g.project = "present" ->
                {Reply(Nil, 202, <<"202 Accepted">>,
                       [g EXCEPT !.project = "deleting", !.files = NoFiles])}
           [] g.project = "deleting" ->
                {Reply(Nil, 202, <<"202 Accepted">>, g),
                 Reply(Nil, 404, <<"404 Project Not Found">>, g)}
           [] g.project = "absent" ->
                {Reply(Nil, 404, <<"404 Project Not Found">>, g)}

(* The service (external) completes a scheduled deletion. *)
ServiceFinishesDeletion ==
    /\ gitlab.project = "deleting"
    /\ gitlab' = [gitlab EXCEPT !.project = "absent"]
    /\ last' = NoLast
    /\ UNCHANGED <<remote, pool, simFail, repo, caller, worker, hist,
                   admitOrder, addsOnly, addedKeys>>

RemoteLifeOps == {"GitlabCreateRepository", "GitlabDeleteRepository",
                  "GitlabResetRepository"}

(* CreateRepository enters its loop; DeleteRepository and ResetRepository  *)
(* send the DELETE first.                                                  *)
GitlabStart(op) ==
    /\ remote.pc = "idle"
    /\ remote' = [RemoteIdle EXCEPT
                    !.op = op,
                    !.pc = IF op = "GitlabCreateRepository"
                           THEN "create" ELSE "delete"]
    /\ last' = NoLast
    /\ UNCHANGED <<gitlab, pool, simFail, repo, caller, worker, hist,
                   admitOrder, addsOnly, addedKeys>>

(* a life cycle operation of the client returns ret *)
GitlabLifeReturn(ret, resp, h) ==
    /\ last' = [op |-> remote.op, ret |-> ret,
                resp |-> [err |-> resp.err, status |-> resp.status],
                was |-> gitlab, hist |-> h]
    /\ remote' = RemoteIdle
    /\ gitlab' = resp.gitlab
    /\ UNCHANGED <<pool, simFail, repo, caller, worker, hist, admitOrder,
                   addsOnly, addedKeys>>

GitlabLifeStep(resp, r) ==
    /\ remote' = r
    /\ gitlab' = resp.gitlab
    /\ last' = NoLast
    /\ UNCHANGED <<pool, simFail, repo, caller, worker, hist, admitOrder,
                   addsOnly, addedKeys>>

(* Gitlab.DeleteRepository: `statusCode != 202 && statusCode != 404` *)
OnlyAccepted(statusCode) == statusCode = 202
DeleteSucceeded(statusCode) == statusCode = 202 \/ statusCode = 404

(* Gitlab.DeleteRepository: what it returns for an answer to its DELETE *)
DeleteRepositoryResult(resp) ==
    IF resp.err # Nil \/ ~DeleteSucceeded(resp.status)
    THEN "failed to delete gitlab repository" ELSE Nil

(* Gitlab.DeleteRepository, and the first half of Gitlab.ResetRepository,  *)
(* which panics on the error and goes on to CreateRepository otherwise     *)
GitlabDeleteRepository ==
    /\ remote.pc = "delete"
    /\ \E resp \in DeleteProject(gitlab) :
         LET deleteRepoErr == DeleteRepositoryResult(resp)
             h == [remote EXCEPT !.deletes = @ + 1,
                                 !.deleteErr = deleteRepoErr]
         IN IF remote.op = "GitlabResetRepository"
            THEN GitlabLifeStep(resp,
                   [h EXCEPT !.pc = IF DeleteFailedFatal(deleteRepoErr)
                                    THEN "panic" ELSE "create"])
            ELSE GitlabLifeReturn(deleteRepoErr, resp, h)

(* Gitlab.CreateRepository: maxRetryCount and the test after retryCount++ *)
maxRetryCount == 20
NeverExhausted(retryCount) == FALSE
RetriesExhausted(retryCount) == retryCount >= maxRetryCount

(* Gitlab.CreateRepository:                                                *)
(* strings.Contains(responseBody, gitlabRepoHasAlreadyBeenTaken)           *)
NeverTaken(responseBody) == FALSE
IsAlreadyTaken(responseBody) ==
    ContainsFragment(responseBody, gitlabRepoHasAlreadyBeenTaken)

(* the conflict a creation request was answered with, for the history *)
Conflict(resp) ==
    IF resp.err # Nil \/ resp.status # 400 THEN "none"
    ELSE IF ContainsFragment(resp.body, gitlabRepoHasAlreadyBeenTaken)
    THEN "taken"
    ELSE IF ContainsFragment(resp.body, StillBeingDeleted) THEN "deleting"
    ELSE "none"

(* the model follows a call for one request more than maxRetryCount *)
MaxRequests == maxRetryCount + 1

(* Gitlab.CreateRepository, one turn of the loop up to the DeleteRepository *)
(* call: the POST, the return on an error or on another status than 201    *)
(* and 400, the retry on a transient 400, the return of nil otherwise.     *)
GitlabCreateRequest ==
    /\ remote.pc = "create"
    /\ remote.creates < MaxRequests
    /\ \E resp \in PostProject(gitlab) :
         LET h == [remote EXCEPT
                     !.creates = @ + 1,
                     !.sentAfter = [answer |-> remote.answer,
                                    healed |-> remote.healed],
                     !.answer = Conflict(resp),
                     !.healed = 0]
         IN IF resp.err # Nil \/ (resp.status # 201 /\ resp.status # 400)
            THEN GitlabLifeReturn("failed to create project", resp, h)
            ELSE IF resp.status = 400
                    /\ isTransientGitlabRepoCreationErrMessage(resp.body)
            THEN GitlabLifeStep(resp,
                   [h EXCEPT
                      !.retryCount = @ + 1,
                      !.pc = IF RetriesExhausted(remote.retryCount + 1)
                             THEN "panic"
                             ELSE IF IsAlreadyTaken(resp.body)
                             THEN "heal" ELSE "create"])
            ELSE GitlabLifeReturn(Nil, resp, h)

(* Gitlab.CreateRepository, `_ = g.DeleteRepository(ctx)`: the DELETE      *)
(* after "has already been taken", its result dropped                      *)
GitlabHealDelete ==
    /\ remote.pc = "heal"
    /\ \E resp \in DeleteProject(gitlab) :
         GitlabLifeStep(resp, [remote EXCEPT !.pc = "create",
                                             !.healed = @ + 1])

(* a request of the client returns: the http.Client has a timeout *)
RemoteClient ==
    \/ GitlabDeleteRepository
    \/ GitlabCreateRequest
    \/ GitlabHealDelete

RemoteLifeCycle ==
    \/ \E op \in RemoteLifeOps : GitlabStart(op)
    \/ RemoteClient
    \/ ServiceFinishesDeletion

(* The client pool (clientPool, a blockingQueues.BlockingQueue) and         *)
(* sendRequest.  The callers are alike: one is followed, the others are    *)
(* counted.                                                                *)

(* the callers of the backend *)
PoolCallers == 22

(* BlockingQueue.Get blocks while the queue is empty, BlockingQueue.Put    *)
(* while it is full                                                        *)
NeverEmpty(idle) == FALSE
PoolEmpty(idle) == idle = 0
PoolFull(idle) == idle >= poolSize

(* the ways out of sendRequest after Get: the request could not be        *)
(* created, client.Do failed, the body could not be read, the              *)
(* RateLimit-Remaining header could not be parsed, or the answer is        *)
(* returned.  (The type assertion cannot fail: the pool holds http.Client  *)
(* values only.)                                                           *)
SendExits == {"failed to create request", "failed to execute request",
              "failed to read body", "failed to parse header", "ok"}

(* `defer func() { clientPool.Put(poolItem) }()` runs on every way out *)
(* the caller keeps the client for the next request of its operation *)
HeldAcrossRequests(exit) == FALSE
PutOnSuccessOnly(exit) == exit = "ok"
PutDeferred(exit) == TRUE

PoolStep(p, l) ==
    /\ pool' = p
    /\ last' = l
    /\ UNCHANGED <<gitlab, remote, simFail, repo, caller, worker, hist,
                   admitOrder, addsOnly, addedKeys>>

(* a caller enters sendRequest and calls clientPool.Get() *)
SendRequestCalled(who) ==
    IF who = "me"
    THEN /\ pool.me = "outside"
         /\ PoolStep([pool EXCEPT !.me = "waiting"], NoLast)
    ELSE /\ pool.waiting + pool.holding < PoolCallers - 1
         /\ PoolStep([pool EXCEPT !.waiting = @ + 1], NoLast)

(* clientPool.Get() returns a client to a caller that waits *)
PoolGet(who) ==
    /\ ~PoolEmpty(pool.idle)
    /\ IF who = "me"
       THEN /\ pool.me = "waiting"
            /\ PoolStep([pool EXCEPT !.me = "holding", !.idle = @ - 1],
                        [op |-> "Get", who |-> who])
       ELSE /\ pool.waiting > 0
            /\ PoolStep([pool EXCEPT !.waiting = @ - 1, !.holding = @ + 1,
                                     !.idle = @ - 1],
                        [op |-> "Get", who |-> who])

(* sendRequest returns by the way out exit, and the deferred function puts *)
(* the client back                                                         *)
sendRequest(who, exit) ==
    /\ ~PoolFull(pool.idle)
    /\ LET idle == IF PutDeferred(exit) THEN pool.idle + 1 ELSE pool.idle
           l == [op |-> "sendRequest", who |-> who, exit |-> exit,
                 err |-> IF exit = "ok" THEN Nil ELSE exit,
                 idleBefore |-> pool.idle]
       IN IF who = "me"
          THEN /\ pool.me = "holding"
               /\ PoolStep([pool EXCEPT !.me = "outside", !.idle = idle], l)
          ELSE /\ pool.holding > 0
               /\ PoolStep([pool EXCEPT !.holding = @ - 1, !.idle = idle], l)

PoolUsers == {"me", "other"}

NextPool ==
    \/ \E who \in PoolUsers : SendRequestCalled(who)
    \/ \E who \in PoolUsers : PoolGet(who)
    \/ \E who \in PoolUsers, exit \in SendExits : sendRequest(who, exit)

SpecPool == Init /\ [][NextPool]_vars

(* every request returns (the clients have a timeout), a released client   *)
(* goes to a caller that waits, and the scheduler does not pass over the   *)
(* same waiting caller for ever                                            *)
SpecPoolFair ==
    /\ SpecPool
    /\ WF_vars(\E who \in PoolUsers, exit \in SendExits :
                 sendRequest(who, exit))
    /\ SF_vars(PoolGet("me"))

RemoteKeys == {KeyA}

NextRemote ==
    \/ \E k \in RemoteKeys, d \in RemoteContents : GitlabAddBlob(k, d)
    \/ \E k \in RemoteKeys : GitlabDeleteBlob(k)
    \/ \E k \in RemoteKeys : GitlabGetBlob(k)
    \/ SetSimulateFailure

SpecRemote == Init /\ [][NextRemote]_vars

----------------------------------------------------------------------------
(* The commit metadata parsers (package git, src/git/commit.go).  A text   *)
(* is a sequence of characters; the clock part of a timestamp, such as     *)
(* "2022-10-09T13:42:12", is kept as one element of the sequence.          *)

(* strings.Split(s, sep), for a separator of one character *)
RECURSIVE Split(_, _)
Split(s, sep) ==
    IF \A i \in DOMAIN s : s[i] # sep THEN <<s>>
    ELSE LET i == CHOOSE i \in DOMAIN s :
                      s[i] = sep /\ \A j \in 1..(i - 1) : s[j] # sep
         IN <<SubSeq(s, 1, i - 1)>> \o Split(SubSeq(s, i + 1, Len(s)), sep)

(* strings.Join(elems, sep) *)
RECURSIVE Join(_, _)
Join(elems, sep) ==
    IF Len(elems) = 0 THEN <<>>
    ELSE IF Len(elems) = 1 THEN elems[1]
    ELSE elems[1] \o <<sep>> \o Join(Tail(elems), sep)

(* strings.Trim(s, cutset): s without the leading and trailing characters  *)
(* of the cutset                                                           *)
Trim(s, cutset) ==
    LET kept == {i \in DOMAIN s : s[i] \notin cutset}
    IN IF kept = {} THEN <<>>
       ELSE SubSeq(s, CHOOSE i \in kept : \A j \in kept : i <= j,
                      CHOOSE i \in kept : \A j \in kept : j <= i)

(* strings.Index(line, prefix) == 0 *)
IndexIsZero(line, prefix) ==
    Len(line) >= Len(prefix) /\ SubSeq(line, 1, Len(prefix)) = prefix

(* the class \s of regexp, and the class [0-9] with the value of a digit *)
WhiteSpace == {" ", "\t", "\n", "\f", "\r"}
Digits == <<"0", "1", "2", "3", "4", "5", "6", "7", "8", "9">>
IsDigit(ch) == \E i \in 1..10 : Digits[i] = ch
DigitValue(ch) == (CHOOSE i \in 1..10 : Digits[i] = ch) - 1

(* what `[\s]+(.+)$` captures in the text that follows a prefix: the       *)
(* longest run of white space is skipped, but one character is left for    *)
(* the group; <<>> stands for no match (the group is never empty).         *)
AfterWhiteSpace(rest) ==
    LET k == IF \A i \in DOMAIN rest : rest[i] \in WhiteSpace THEN Len(rest)
             ELSE (CHOOSE i \in DOMAIN rest :
                      /\ rest[i] \notin WhiteSpace
                      /\ \A j \in 1..(i - 1) : rest[j] \in WhiteSpace) - 1
    IN IF k = 0 \/ Len(rest) < 2 THEN <<>>
       ELSE IF k = Len(rest) THEN SubSeq(rest, Len(rest), Len(rest))
       ELSE SubSeq(rest, k + 1, Len(rest))

NoSubmatch == [found |-> FALSE, sub |-> <<>>]

(* FindStringSubmatch of `^<prefix>[\s]+(.+)$` on a line without "\n" *)
FindTextSubmatch(prefix, line) ==
    IF ~IndexIsZero(line, prefix) THEN NoSubmatch
    ELSE LET sub1 == AfterWhiteSpace(SubSeq(line, Len(prefix) + 1, Len(line)))
         IN IF sub1 = <<>> THEN NoSubmatch
            ELSE [found |-> TRUE, sub |-> <<sub1>>]

(* FindStringSubmatch of `^<prefix>[\s]+(.+)([0-9]{2})([0-9]{2})$` *)
FindDateSubmatch(prefix, line) ==
    IF ~IndexIsZero(line, prefix) \/ Len(line) < Len(prefix) + 4
    THEN NoSubmatch
    ELSE LET n == Len(line)
             sub1 == AfterWhiteSpace(SubSeq(line, Len(prefix) + 1, n - 4))
         IN IF sub1 = <<>> \/ \E i \in (n - 3)..n : ~IsDigit(line[i])
            THEN NoSubmatch
            ELSE [found |-> TRUE,
                  sub |-> <<sub1, SubSeq(line, n - 3, n - 2),
                            SubSeq(line, n - 1, n)>>]

authorRegexp(line) ==
    FindTextSubmatch(<<"A", "u", "t", "h", "o", "r", ":">>, line)
authorDateRegexp(line) ==
    FindDateSubmatch(<<"A", "u", "t", "h", "o", "r", "D", "a", "t", "e", ":">>,
                     line)
commitRegexp(line) ==
    FindTextSubmatch(<<"C", "o", "m", "m", "i", "t", ":">>, line)
commitDateRegexp(line) ==
    FindDateSubmatch(<<"C", "o", "m", "m", "i", "t", "D", "a", "t", "e", ":">>,
                     line)

(* The clock parts the commits carry, and the seconds since the epoch of   *)
(* each read as UTC                                                        *)
Clocks == {"2022-10-09T13:42:12", "2022-10-31T15:30:17"}
ClockSeconds(clock) ==
    IF clock = "2022-10-09T13:42:12" THEN 1665322932 ELSE 1667230217

(* time.Time: the instant, and the offset of its zone in minutes *)
ZeroTime == [unix |-> 0, offset |-> 0]

(* time.Parse(time.RFC3339, value): the clock, then "Z" or a sign, two     *)
(* digits, a colon and two digits; hours over 24 and minutes over 60 are   *)
(* out of range.                                                           *)
TimeParse(value) ==
    IF Len(value) = 0 \/ value[1] \notin Clocks THEN Failed(ZeroTime)
    ELSE LET zone == Tail(value)
         IN IF zone = <<"Z">>
            THEN Value([unix |-> ClockSeconds(value[1]), offset |-> 0])
            ELSE IF \/ Len(zone) # 6
                    \/ zone[1] \notin {"+", "-"}
                    \/ zone[4] # ":"
                    \/ \E i \in {2, 3, 5, 6} : ~IsDigit(zone[i])
            THEN Failed(ZeroTime)
            ELSE LET hh == (10 * DigitValue(zone[2])) + DigitValue(zone[3])
                     mm == (10 * DigitValue(zone[5])) + DigitValue(zone[6])
                     off == IF zone[1] = "-" THEN 0 - ((60 * hh) + mm)
                            ELSE (60 * hh) + mm
                 IN IF hh > 24 \/ mm > 60 THEN Failed(ZeroTime)
                    ELSE Value([unix |-> ClockSeconds(value[1]) - (60 * off),
                                offset |-> off])

(* the text without the colon put back *)
offsetAsPrinted(sub1, sub2, sub3) == sub1 \o sub2 \o sub3

(* parseTimeFromLocalCommitOutput: fmt.Sprintf("%s%s:%s", ...) *)
rfc3339(sub1, sub2, sub3) == sub1 \o sub2 \o <<":">> \o sub3

(* parseTimeFromLocalCommitOutput, given what the expression finds *)
parseTimeFromLocalCommitOutput(submatch) ==
    IF submatch.found
    THEN LET t == TimeParse(rfc3339(submatch.sub[1], submatch.sub[2],
                                    submatch.sub[3]))
         IN IF ~t.ok
            THEN [tim |-> ZeroTime, found |-> FALSE,
                  err |-> "failed to parse time"]
            ELSE [tim |-> t.val, found |-> TRUE, err |-> Nil]
    ELSE [tim |-> ZeroTime, found |-> FALSE, err |-> Nil]

(* CommitMetadata{} *)
NoCommitMetadata ==
    [Author |-> <<>>, AuthorDate |-> ZeroTime, Commit |-> <<>>,
     CommitDate |-> ZeroTime, Message |-> <<>>]

(* ParseLocalCommitMetadata, the loop over the lines from line i on, and   *)
(* the return after it                                                     *)
RECURSIVE ParseLines(_, _, _, _)
ParseLines(lines, i, commitMetadata, commitMessageBuffer) ==
    IF i > Len(lines)
    THEN [meta |-> [commitMetadata EXCEPT
                      !.Message = Join(commitMessageBuffer, "\n")],
          err |-> Nil]
    ELSE LET line == lines[i]
             authorTime == parseTimeFromLocalCommitOutput(
                               authorDateRegexp(line))
             commitTime == parseTimeFromLocalCommitOutput(
                               commitDateRegexp(line))
         IN IF authorRegexp(line).found
            THEN ParseLines(lines, i + 1,
                     [commitMetadata EXCEPT
                        !.Author = authorRegexp(line).sub[1]],
                     commitMessageBuffer)
            ELSE IF commitRegexp(line).found
            THEN ParseLines(lines, i + 1,
                     [commitMetadata EXCEPT
                        !.Commit = commitRegexp(line).sub[1]],
                     commitMessageBuffer)
            ELSE IF authorTime.err # Nil
            THEN [meta |-> commitMetadata, err |-> authorTime.err]
            ELSE IF authorTime.found
            THEN ParseLines(lines, i + 1,
                     [commitMetadata EXCEPT !.AuthorDate = authorTime.tim],
                     commitMessageBuffer)
            ELSE IF commitTime.err # Nil
            THEN [meta |-> commitMetadata, err |-> commitTime.err]
            ELSE IF commitTime.found
            THEN ParseLines(lines, i + 1,
                     [commitMetadata EXCEPT !.CommitDate = commitTime.tim],
                     commitMessageBuffer)
            ELSE IF IndexIsZero(line, <<" ", " ", " ", " ">>)
            THEN ParseLines(lines, i + 1, commitMetadata,
                     Append(commitMessageBuffer, Trim(line, {" ", "\t"})))
            ELSE ParseLines(lines, i + 1, commitMetadata,
                            commitMessageBuffer)

ParseLocalCommitMetadata(metadata) ==
    ParseLines(Split(metadata, "\n"), 1, NoCommitMetadata, <<>>)

(* GitlabCommitResponseToMetadata: the returned value has no Message *)
GitlabCommitResponseToMetadata(response) ==
    LET authorDate == TimeParse(response.AuthoredDate)
        commitDate == TimeParse(response.CommittedDate)
    IN IF ~authorDate.ok \/ ~commitDate.ok
       THEN [meta |-> NoCommitMetadata, err |-> "failed to parse time"]
       ELSE [meta |-> [NoCommitMetadata EXCEPT
                         !.Author = response.AuthorName \o <<" ", "<">>
                                      \o response.AuthorEmail \o <<">">>,
                         !.AuthorDate = authorDate.val,
                         !.Commit = response.CommitterName \o <<" ", "<">>
                                      \o response.CommitterEmail \o <<">">>,
                         !.CommitDate = commitDate.val],
             err |-> Nil]

(* The commits the parsers are given: persons, dates as a clock with the   *)
(* offset of the zone in minutes, and messages as lines                    *)
Persons ==
    {[name |-> <<"K", ",", " ", "P">>, email |-> <<"p", "@", "g">>],
     [name |-> <<"P", " ", "K">>, email |-> <<"p", "@", "g">>]}
Offsets == {120, 0, 0 - 330}
Dates == [clock : Clocks, offset : Offsets]
FirstLine == <<"[", "D", "]", " ", "g", "i", "t">>
OtherLine == <<"o", "k">>
Messages ==
    {<<FirstLine>>, <<FirstLine, OtherLine>>, <<FirstLine, <<>>, OtherLine>>,
     <<FirstLine, <<" ", " ">> \o OtherLine>>}
Commits ==
    [author : Persons, authorDate : Dates, committer : Persons,
     commitDate : Dates, message : Messages]

(* the zone as strftime's %z prints it: sign, hours, minutes *)
TwoDigits(n) == <<Digits[(n \div 10) + 1], Digits[(n % 10) + 1]>>
ZoneHours(offset) ==
    TwoDigits((IF offset < 0 THEN 0 - offset ELSE offset) \div 60)
ZoneMinutes(offset) ==
    TwoDigits((IF offset < 0 THEN 0 - offset ELSE offset) % 60)
ZoneSign(offset) == IF offset < 0 THEN "-" ELSE "+"

(* a person as git prints it, and as fmt.Sprintf("%s <%s>") does *)
PersonText(p) == p.name \o <<" ", "<">> \o p.email \o <<">">>

(* git show --quiet --format=fuller --date=format:%Y-%m-%dT%H:%M:%S%z      *)
(* (external): the commit line, the four headers, a separating line, the   *)
(* message with every line indented by four spaces, and the end of the     *)
(* last line.  The separating line is empty; the repository's test input   *)
(* has a tab in it.                                                        *)
DateAsPrinted(d) ==
    <<d.clock, ZoneSign(d.offset)>> \o ZoneHours(d.offset)
        \o ZoneMinutes(d.offset)
GitShowFuller(c, separator) ==
    Join(<<<<"c", "o", "m", "m", "i", "t", " ", "9", "5">>,
           <<"A", "u", "t", "h", "o", "r", ":", " ", " ", " ", " ", " ">>
               \o PersonText(c.author),
           <<"A", "u", "t", "h", "o", "r", "D", "a", "t", "e", ":", " ">>
               \o DateAsPrinted(c.authorDate),
           <<"C", "o", "m", "m", "i", "t", ":", " ", " ", " ", " ", " ">>
               \o PersonText(c.committer),
           <<"C", "o", "m", "m", "i", "t", "D", "a", "t", "e", ":", " ">>
               \o DateAsPrinted(c.commitDate),
           separator>>
         \o [i \in DOMAIN c.message |-> <<" ", " ", " ", " ">> \o c.message[i]]
         \o << <<>> >>,
         "\n")

(* the timestamp with the standard offset, as the service's JSON has it *)
DateAsRFC3339(d) ==
    <<d.clock, ZoneSign(d.offset)>> \o ZoneHours(d.offset) \o <<":">>
        \o ZoneMinutes(d.offset)

(* CommitQueryResponseItem, what the service (external) answers for the    *)
(* commit                                                                  *)
CommitQueryResponse(c) ==
    [Message |-> Join(c.message, "\n"),
     AuthorName |-> c.author.name, AuthorEmail |-> c.author.email,
     AuthoredDate |-> DateAsRFC3339(c.authorDate),
     CommitterName |-> c.committer.name,
     CommitterEmail |-> c.committer.email,
     CommittedDate |-> DateAsRFC3339(c.commitDate)]

Separators == {<<>>, <<"\t">>}

(* The parsers applied to commits: the state starts with a commit that was *)
(* made, and each parser is given its form of the commit.                  *)
InitParse ==
    /\ simFail = FALSE
    /\ repo = [AbsentRepo(1) EXCEPT !.dir = "repo"]
    /\ caller = [c \in Callers |-> Idle]
    /\ worker = [w \in Workers |-> 0]
    /\ hist = [c \in Callers |-> NoHist]
    /\ admitOrder = <<>>
    /\ last \in [op : {"commit"}, commit : Commits, separator : Separators]
    /\ addsOnly = TRUE
    /\ addedKeys = {}
    /\ gitlab = [files |-> NoFiles, project |-> "present"]
    /\ remote = RemoteIdle
    /\ pool = PoolInit

Parsed(op, res) ==
    /\ last.op = "commit"
    /\ last' = [op |-> op, commit |-> last.commit,
                separator |-> last.separator, meta |-> res.meta,
                err |-> res.err]
    /\ UNCHANGED <<gitlab, remote, pool, simFail, repo, caller, worker, hist,
                   admitOrder, addsOnly, addedKeys>>

ParseLocal ==
    Parsed("ParseLocalCommitMetadata",
           ParseLocalCommitMetadata(GitShowFuller(last.commit, last.separator)))

ParseRemote ==
    Parsed("GitlabCommitResponseToMetadata",
           GitlabCommitResponseToMetadata(CommitQueryResponse(last.commit)))

NextParse == ParseLocal \/ ParseRemote

SpecParse == InitParse /\ [][NextParse]_vars

----------------------------------------------------------------------------
(* The specifications *)

Keys == FileKeys \cup {KeySlash}

BlobCall(c, keys, contents) ==
    \/ \E k \in keys, d \in contents, u \in Users : AddBlob(c, k, d, u)
    \/ \E k1 \in keys, k2 \in keys, u \in Users : CopyBlob(c, k1, k2, u)
    \/ \E k \in keys, u \in Users : DeleteBlob(c, k, u)

ReadCall(c, keys) ==
    \/ \E k \in keys : GetBlob(c, k)
    \/ \E k \in keys : GetVersionFor(c, k)
    \/ CheckStatus(c)
    \/ GetStateID(c)
    \/ ListBlobKeys(c)

LifeSteps(c) ==
    \/ RemoveAll(c)
    \/ initMaybe(c)
    \/ CreateRm(c)
    \/ CreateMkdir(c)
    \/ CreateInit(c)

LifeCycle(c) ==
    \/ \E op \in LifeOps : StartLife(c, op, NoHist)
    \/ LifeSteps(c)

LifeCycleSeq(c) ==
    \/ \E op \in LifeOps :
         StartLife(c, op, [NoHist EXCEPT !.before = Committed(repo, <<>>),
                                         !.was = repo])
    \/ LifeSteps(c)

Serializer ==
    \/ \E w \in Workers, c \in Callers : Receive(w, c)
    \/ \E w \in Workers : JobBlobOperation(w)
    \/ \E w \in Workers : JobAdd(w)
    \/ \E w \in Workers : JobCommit(w)
    \/ \E w \in Workers : JobRollbackReset(w)
    \/ \E w \in Workers : JobRollbackClean(w)
    \/ \E w \in Workers : JobFinish(w)
    \/ \E c \in Callers : EnqueueReturns(c)

(* Concurrent callers of the blob and read operations of one repository *)
ConcKeys == {KeyA}
ConcContents == {<<65>>}

Next ==
    \/ \E c \in Callers : BlobCall(c, ConcKeys, ConcContents)
    \/ \E c \in Callers : ReadCall(c, ConcKeys)
    \/ Serializer
    \/ SetSimulateFailure

Spec == Init /\ [][Next]_vars

(* The same with the life cycle operations *)
NextLife ==
    /\ ~Panicked
    /\ \/ Next
       \/ \E c \in Callers : LifeCycle(c)

SpecLife == Init /\ [][NextLife]_vars

(* One caller issuing blob and read operations one after the other *)
NextSeq ==
    \/ BlobCall(1, Keys, LocalContents)
    \/ ReadCall(1, Keys)
    \/ \E commitId \in 1..MaxCommits : GetVersionMetadata(1, commitId)
    \/ Serializer
    \/ SetSimulateFailure

SpecSeq == Init /\ [][NextSeq]_vars

(* The life cycle operations of the GitLab client, one after the other *)
NextRemoteLife == ~Panicked /\ RemoteLifeCycle

SpecRemoteLife == Init /\ [][NextRemoteLife]_vars

(* The local backend under concurrent callers where the worker goroutine   *)
(* and the callers are scheduled (every git command and file operation of  *)
(* a job ends, so each step of a job is taken), and where a caller blocked *)
(* on the send to the channel is received in the end: the channel keeps    *)
(* its blocked senders in a queue, the worker takes the first of them each *)
(* time it comes back to its receive.                                      *)
JobSteps ==
    \/ \E w \in Workers : JobBlobOperation(w)
    \/ \E w \in Workers : JobAdd(w)
    \/ \E w \in Workers : JobCommit(w)
    \/ \E w \in Workers : JobRollbackReset(w)
    \/ \E w \in Workers : JobRollbackClean(w)
    \/ \E w \in Workers : JobFinish(w)

SpecFair ==
    /\ Spec
    /\ WF_vars(JobSteps)
    /\ \A c \in Callers : SF_vars(\E w \in Workers : Receive(w, c))
    /\ \A c \in Callers : WF_vars(EnqueueReturns(c))

(* the same where every request of the client returns *)
SpecRemoteLifeFair == SpecRemoteLife /\ WF_vars(NextRemoteLife /\ RemoteClient)

(* The life cycle operations of both backends, each by one caller *)
NextReset ==
    /\ ~Panicked
    /\ \/ LifeCycle(1)
       \/ RemoteLifeCycle

SpecReset == Init /\ [][NextReset]_vars

(* One caller issuing blob and life cycle operations one after the other *)
NextLifeSeq ==
    /\ ~Panicked
    /\ \/ BlobCall(1, ConcKeys, LocalContents)
       \/ LifeCycleSeq(1)
       \/ LocationHasRepo(1)
       \/ GetStateID(1)
       \/ Serializer

SpecLifeSeq == Init /\ [][NextLifeSeq]_vars

----------------------------------------------------------------------------
(* Properties of the job serializer *)

(* the job of caller c has been started by a worker and has not returned *)
Running(c) == caller[c].job \in {"blobop", "add", "commit", "reset", "clean",
                                 "finish"}

(* C1: at most one submitted job is executing at any moment: no two        *)
(* callers have a job that a worker has started and that has not returned. *)
JobMutualExclusion ==
    \A c1 \in Callers, c2 \in Callers :
        Running(c1) /\ Running(c2) => c1 = c2

(* a job is executing while another caller is blocked on the send *)
JobRunsWhileAnotherWaits ==
    \E c1 \in Callers, c2 \in Callers :
        c1 # c2 /\ Running(c1) /\ caller[c2].pc = "send"

(* C2: a job passed to Enqueue is started exactly once; when AddBlob,      *)
(* DeleteBlob or CopyBlob returns from Enqueue its own job has finished,   *)
(* and the error it returns is the one that job returned.                  *)
OwnJobExactlyOnce ==
    /\ \A c \in Callers :
         /\ hist[c].execCount <= 1
         /\ caller[c].pc = "wait" => hist[c].execCount = 1
    /\ last.op \in BlobOps /\ last.job # "none" =>
         /\ last.hist.execCount = 1
         /\ last.job = "finished"
         /\ last.ret = last.jobRet

(* a blob operation returns its job's error while the other caller is      *)
(* inside Enqueue                                                          *)
ReturnsOwnErrorAmongOthers ==
    /\ last.op \in BlobOps
    /\ last.job = "finished"
    /\ last.ret # Nil
    /\ \E c \in Callers : caller[c].pc \in {"send", "wait"}

(* C3: jobs complete in admission order: of two callers inside Enqueue     *)
(* whose jobs were admitted, the job admitted first has completed.         *)
CompleteInAdmissionOrder ==
    \A i \in DOMAIN admitOrder, j \in DOMAIN admitOrder :
        i < j => caller[admitOrder[i]].job = "finished"

(* B's job runs, admitted after A's, while A's caller is still in Wait *)
SecondAdmittedRuns ==
    \E i \in DOMAIN admitOrder, j \in DOMAIN admitOrder :
        /\ i < j
        /\ Running(admitOrder[j])
        /\ caller[admitOrder[i]].pc = "wait"

(* the mutating operation of caller c is acting on the repository *)
InFlight(c) ==
    \/ Running(c)
    \/ caller[c].pc \in {"removeall", "hasrepo", "rm", "mkdir", "init"}

(* C4: at no time are two mutating operations in flight against the        *)
(* repository location.                                                    *)
OneMutationInFlight == Cardinality({c \in Callers : InFlight(c)}) <= 1

(* C5: a GetBlob issued while a mutation of an initialized repository is   *)
(* running returns what the committed state (HEAD) holds for the key.      *)
GetBlobSeesCommitted ==
    last.op = "GetBlob" /\ GitUsable(repo)
                        /\ (\E c \in Callers : Running(c)) =>
        last.res = last.committed

----------------------------------------------------------------------------
(* Properties of the blob operations, for one caller *)

(* C6: a job whose blob file operation failed returns an error, after the  *)
(* two rollback commands have run, and it has made no commit.              *)
FailedBlobOperationFails ==
    last.op \in BlobOps /\ last.job = "finished"
                        /\ last.hist.blobErr # Nil =>
        /\ last.ret # Nil
        /\ last.hist.rolledBack = <<"reset", "clean">>
        /\ GetStateIDResult(repo) = last.hist.before.stateID

(* C7: when AddBlob, DeleteBlob or CopyBlob returns success, GetStateID    *)
(* gives an id that no earlier state had; when it returns an error,        *)
(* GetStateID gives what it gave before the call.                          *)
StateIDChangesIffCommitted ==
    last.op \in BlobOps =>
        IF last.ret = Nil
        THEN /\ GetStateIDResult(repo).ok
             /\ GetStateIDResult(repo).val >= last.hist.before.nextId
        ELSE GetStateIDResult(repo) = last.hist.before.stateID

(* a successful mutation of a repository that already had a state id *)
StateIDChanged ==
    /\ last.op \in BlobOps
    /\ last.ret = Nil
    /\ last.hist.before.stateID.ok
    /\ GetStateIDResult(repo) # last.hist.before.stateID

(* C8: with the failure toggle set, an AddBlob of a key that is not        *)
(* stored, whose file was written, in an initialized repository, returns   *)
(* an error and leaves CheckStatus true and the key absent from            *)
(* ListBlobKeys.                                                           *)
SimulatedFailureLeavesClean ==
    last.op = "AddBlob" /\ last.job = "finished" /\ simFail
                        /\ last.hist.blobErr = Nil
                        /\ GitUsable(repo) /\ ~last.hist.before.listed =>
        /\ last.ret # Nil
        /\ CheckStatusResult(repo) = Value(TRUE)
        /\ \A i \in DOMAIN ListBlobKeysResult(repo).val :
             ListBlobKeysResult(repo).val[i] # last.call.key

(* the elements of a sequence *)
Range(seq) == {seq[i] : i \in DOMAIN seq}

(* C10: after only successful AddBlob calls on distinct keys into a fresh  *)
(* repository, ListBlobKeys returns exactly those keys, each once.         *)
ListsExactlyAddedKeys ==
    addsOnly /\ last.op = "AddBlob" =>
        /\ ListBlobKeysResult(repo).ok
        /\ Range(ListBlobKeysResult(repo).val) = addedKeys
        /\ Len(ListBlobKeysResult(repo).val) = Cardinality(addedKeys)

----------------------------------------------------------------------------
(* Properties of the stored content *)

(* C9: after a successful AddBlob of a non-empty content, GetBlob on the   *)
(* same key returns the content that was added, byte for byte.             *)
RemoteRoundTrip ==
    last.op = "GitlabAddBlob" /\ last.ret = Nil /\ Len(last.content) >= 1 =>
        GitlabGetBlobResult(gitlab, last.key) = Value(last.content)

----------------------------------------------------------------------------
(* Properties of the error paths *)

(* errors.Is(err, vcblobstore.ErrBlobNotFound) on what an operation returns *)
IsBlobNotFound(err) == err = ErrBlobNotFound

(* C11: DeleteBlob of a key that was never added, in a clean repository,   *)
(* returns an error that is the store's blob-not-found error, and leaves   *)
(* CheckStatus true and the state id as it was.                            *)
DeleteMissingIsNotFound ==
    last.op = "DeleteBlob" /\ last.job = "finished"
                           /\ pathToFile(last.call.key) = Nil
                           /\ last.hist.before.status = Value(TRUE)
                           /\ ~last.hist.before.listed =>
        /\ IsBlobNotFound(last.ret)
        /\ CheckStatusResult(repo) = Value(TRUE)
        /\ GetStateIDResult(repo) = last.hist.before.stateID

(* no operation has written the file of the key: no commit changed the     *)
(* path, and neither the working directory nor the index holds it          *)
NeverWritten(r, key) ==
    /\ key \in FileKeys
    /\ r.touched[key] = 0
    /\ r.wt[key] = NoFile
    /\ r.idx[key] = NoFile

(* C12: in every state of an initialized repository, GetVersionFor of a    *)
(* key that was never written returns the empty string and no error, and   *)
(* GetBlob of the key returns an error.                                    *)
VersionOfNeverWrittenIsEmpty ==
    last.op = "GetVersionFor" /\ GitUsable(repo)
                              /\ NeverWritten(repo, last.key) =>
        /\ last.res = Value(0)
        /\ ~GetBlobResult(repo, last.key).ok

(* the moment an operation was called: no commit made before the call has  *)
(* a later date                                                            *)
TimeBefore(h) == h.before.nextId

(* C13: after a successful AddBlob, CheckStatus is true, GetVersionFor of  *)
(* the key is a non-empty version token, and GetVersionMetadata of that    *)
(* token has a CommitDate not earlier than the moment AddBlob was called.  *)
AddedBlobHasVersion ==
    last.op = "AddBlob" /\ last.ret = Nil =>
        /\ CheckStatusResult(repo) = Value(TRUE)
        /\ GetVersionForResult(repo, last.call.key).ok
        /\ GetVersionForResult(repo, last.call.key).val # 0
        /\ LET meta == GetVersionMetadataResult(repo,
                          GetVersionForResult(repo, last.call.key).val)
           IN meta.ok /\ meta.val.CommitDate >= TimeBefore(last.hist)

(* C14: an operation given a key that contains the path separator returns  *)
(* the validation error before any I/O: no job was submitted to the        *)
(* serializer, and no job or rollback command ran.                         *)
SlashKeyRejectedBeforeIO ==
    /\ last.op \in BlobOps /\ (pathToFile(last.call.key) # Nil
                                \/ pathToFile(last.call.src) # Nil) =>
          /\ last.ret # Nil
          /\ last.job = "none"
          /\ last.hist.execCount = 0
          /\ last.hist.rolledBack = <<>>
    /\ last.op \in {"GetBlob", "GetVersionFor"}
                /\ pathToFile(last.key) # Nil =>
          ~last.res.ok

----------------------------------------------------------------------------
(* Properties of the repository life cycle, for one caller *)

(* C15: CreateRepository called where the location already holds a         *)
(* repository returns success having run only the probe, and leaves the    *)
(* repository (its commits, its state id, its files) as it was.            *)
CreateKeepsRepository ==
    last.op = "CreateRepository" /\ GitUsable(last.hist.was) =>
        /\ last.ret = Nil
        /\ last.hist.trail = <<"hasrepo">>
        /\ repo = last.hist.was
        /\ GetStateIDResult(repo) = last.hist.before.stateID

(* CreateRepository has returned in a repository that holds a commit and   *)
(* a file                                                                  *)
CreateOnRepositoryWithBlob ==
    /\ last.op = "CreateRepository"
    /\ last.hist.was.head # 0
    /\ GetBlobResult(last.hist.was, KeyA).ok

(* C16: LocationHasRepo returns false when the location does not exist,    *)
(* and it returns true in the state a successful CreateRepository leaves,  *)
(* whatever calls came before.                                             *)
LocationHasRepoAfterCreate ==
    /\ last.op = "LocationHasRepo" /\ last.was.dir = "absent" =>
          last.res = FALSE /\ repo = last.was
    /\ last.op = "CreateRepository" /\ last.ret = Nil =>
          /\ LocationHasRepoResult(repo).res = TRUE
          /\ ~LocationHasRepoResult(repo).panic

(* CreateRepository has created the repository at a location that did not  *)
(* exist and has returned success                                          *)
CreatedFromNothing ==
    /\ last.op = "CreateRepository"
    /\ last.ret = Nil
    /\ last.hist.was.dir = "absent"
    /\ last.hist.trail = <<"hasrepo", "rm", "mkdir", "init">>

(* the steps of CreateRepository in the local backend *)
CreateSteps == {"hasrepo", "rm", "mkdir", "init"}

(* C17: ResetRepository, on both backends, deletes once and first; it      *)
(* goes on to the create only after a delete that succeeded, and after a   *)
(* delete that failed it panics, having sent no other delete and nothing   *)
(* of the create.                                                          *)
ResetDeletesThenCreates ==
    /\ \A c \in Callers : caller[c].call.op = "ResetRepository" =>
          /\ caller[c].pc \in CreateSteps =>
                /\ hist[c].deleteErr = Nil
                /\ hist[c].trail # <<>> /\ hist[c].trail[1] = "removeall"
                /\ \A i \in DOMAIN hist[c].trail :
                      i > 1 => hist[c].trail[i] \in CreateSteps
          /\ caller[c].pc = "panic" =>
                hist[c].deleteErr # Nil /\ hist[c].trail = <<"removeall">>
    /\ last.op = "ResetRepository" =>
          /\ last.hist.deleteErr = Nil
          /\ Len(last.hist.trail) >= 2
          /\ last.hist.trail[1] = "removeall"
          /\ \A i \in DOMAIN last.hist.trail :
                i > 1 => last.hist.trail[i] \in CreateSteps
    /\ remote.op = "GitlabResetRepository" =>
          /\ remote.pc \in {"create", "heal"} =>
                remote.deleteErr = Nil /\ remote.deletes = 1
          /\ remote.creates > 0 =>
                remote.deleteErr = Nil /\ remote.deletes = 1
          /\ remote.pc = "panic" /\ remote.deleteErr # Nil =>
                remote.deletes = 1 /\ remote.creates = 0
                                  /\ remote.healed = 0
    /\ last.op = "GitlabResetRepository" =>
          /\ last.hist.deleteErr = Nil
          /\ last.hist.deletes = 1
          /\ last.hist.creates >= 1

(* the local ResetRepository has stopped in the panic after its delete     *)
(* failed, while the remote one, after its delete succeeded, is in         *)
(* CreateRepository                                                        *)
ResetPanickedAndResetCreating ==
    /\ caller[1].call.op = "ResetRepository"
    /\ caller[1].pc = "panic"
    /\ hist[1].deleteErr # Nil
    /\ remote.op = "GitlabResetRepository"
    /\ remote.pc = "create"
    /\ remote.deletes = 1

----------------------------------------------------------------------------
(* Properties of the life cycle of the GitLab project *)

(* C18: the remote DeleteRepository returns success exactly when the       *)
(* request had no transport error and was answered 202 or 404; so the      *)
(* delete of a project that is already absent, answered 404, succeeds.     *)
RemoteDeleteIdempotent ==
    last.op = "GitlabDeleteRepository" =>
        /\ last.ret = Nil <=>
              last.resp.err = Nil /\ last.resp.status \in {202, 404}
        /\ last.was.project = "absent" /\ last.resp.err = Nil
                                       /\ last.resp.status = 404 =>
              last.ret = Nil /\ gitlab.project = "absent"

(* DeleteRepository of an absent project was answered 404 and has returned *)
(* success                                                                 *)
DeletedTwice ==
    /\ last.op = "GitlabDeleteRepository"
    /\ last.was.project = "absent"
    /\ last.resp.status = 404
    /\ last.ret = Nil

(* a CreateRepository of the client (also the one ResetRepository calls)   *)
(* is in its loop                                                          *)
CreateRunning == remote.pc \in {"create", "heal"}

(* the operation of the client has returned or has panicked *)
CreateEnded == remote.pc \in {"idle", "panic"}

CreateOps == {"GitlabCreateRepository", "GitlabResetRepository"}

(* one call has sent at most maxRetryCount creation requests, each but the *)
(* first after a transient conflict answer; the panic of CreateRepository  *)
(* comes after exactly maxRetryCount requests, all answered by a conflict  *)
CreateBounded ==
    /\ remote.creates <= maxRetryCount
    /\ remote.creates > 1 => remote.sentAfter.answer \in {"taken", "deleting"}
    /\ remote.pc = "panic" /\ remote.creates > 0 =>
          /\ remote.creates = maxRetryCount
          /\ remote.retryCount = maxRetryCount
          /\ remote.answer \in {"taken", "deleting"}
    /\ last.op \in CreateOps =>
          /\ last.hist.creates <= maxRetryCount
          /\ last.hist.creates > 1 =>
                last.hist.sentAfter.answer \in {"taken", "deleting"}

(* C19: the remote CreateRepository sends at most 20 creation requests in  *)
(* one call, retries only after a transient conflict answer, panics after  *)
(* the 20th conflict instead of sending another request, and always ends:  *)
(* it returns or it panics.                                                *)
CreateTerminatesBounded ==
    /\ []CreateBounded
    /\ CreateRunning ~> CreateEnded

(* CreateRepository has panicked after its 20th creation request *)
CreateGaveUp ==
    /\ remote.op = "GitlabCreateRepository"
    /\ remote.pc = "panic"
    /\ remote.creates = maxRetryCount

(* C20: a creation request that follows the answer "has already been       *)
(* taken" is sent after exactly one DeleteRepository request, and one that *)
(* follows the answer "still being deleted" is sent after none; after the  *)
(* "has already been taken" answer the client is at the delete or in the   *)
(* panic of the exhausted retries.                                         *)
TakenDeletesBeforeRetry ==
    /\ remote.sentAfter.answer = "taken" => remote.sentAfter.healed = 1
    /\ remote.sentAfter.answer = "deleting" => remote.sentAfter.healed = 0
    /\ remote.answer = "taken" /\ remote.healed = 0 =>
          remote.pc \in {"heal", "panic"}
    /\ remote.answer = "deleting" => remote.healed = 0 /\ remote.pc # "heal"
    /\ last.op \in CreateOps =>
          /\ last.hist.sentAfter.answer = "taken" =>
                last.hist.sentAfter.healed = 1
          /\ last.hist.sentAfter.answer = "deleting" =>
                last.hist.sentAfter.healed = 0

(* CreateRepository has returned success from a creation request that came *)
(* after "has already been taken" and the delete                           *)
CreatedAfterTaken ==
    /\ last.op = "GitlabCreateRepository"
    /\ last.ret = Nil
    /\ last.resp.status = 201
    /\ last.hist.sentAfter = [answer |-> "taken", healed |-> 1]

(* C21: the remote CreateRepository returns success only when its last     *)
(* creation request was answered 201, and it returns an error for a        *)
(* transport error, for another status than 201 and 400, and for a 400     *)
(* whose message is no transient conflict; a transient conflict is never   *)
(* what it returns.                                                        *)
CreateSuccessMeansCreated ==
    last.op = "GitlabCreateRepository" =>
        /\ last.ret = Nil <=> last.resp.err = Nil /\ last.resp.status = 201
        /\ last.hist.answer = "none"

----------------------------------------------------------------------------
(* Properties of the client pool *)

(* the requests in progress: the callers that hold a client *)
InProgress == pool.holding + (IF pool.me = "holding" THEN 1 ELSE 0)

(* C22: in every state the clients in the pool and the requests that hold  *)
(* a client add up to the capacity, and when sendRequest has returned, by  *)
(* whatever way out, the pool holds one client more than before.           *)
PoolNeverShrinks ==
    /\ pool.idle + InProgress = poolSize
    /\ pool.idle >= 0
    /\ last.op = "sendRequest" => pool.idle = last.idleBefore + 1

(* sendRequest has returned by an error while the pool was empty *)
ReturnedClientToEmptyPool ==
    /\ last.op = "sendRequest"
    /\ last.exit = "failed to read body"
    /\ last.idleBefore = 0

(* at most poolSize requests are in progress, and Get has given a caller a *)
(* client only when the pool held one                                      *)
PoolCeiling ==
    /\ InProgress <= poolSize
    /\ last.op = "Get" => pool.idle >= 0
    /\ last.op = "sendRequest" => last.exit \in SendExits

(* C23: at most 20 requests are in progress at any moment, and a caller    *)
(* that waits for a client because all are in use gets one and goes on     *)
(* with its request: its call can only end by a way out of sendRequest     *)
(* that comes after Get.                                                   *)
PoolBlocksThenServes ==
    /\ []PoolCeiling
    /\ pool.me = "waiting" ~> pool.me = "holding"

(* the caller waits while all the clients are in use *)
BlockedOnExhaustedPool ==
    /\ pool.me = "waiting"
    /\ pool.idle = 0
    /\ pool.holding = poolSize
    /\ pool.waiting > 0

----------------------------------------------------------------------------
(* Properties of the remote mutations *)

(* the one commit request of a mutation: one request of one action, of the *)
(* kind and for the key of the operation                                   *)
OneRequestOneAction(l) ==
    /\ Len(l.sent) = 1
    /\ Len(l.sent[1]) = 1
    /\ l.sent[1][1].file_path = l.key
    /\ l.sent[1][1].action =
          (IF l.op = "GitlabAddBlob" THEN "create" ELSE "delete")

(* C24 as stated: each remote AddBlob and DeleteBlob sends exactly one      *)
(* commit request of exactly one action for the key.                       *)
ExactlyOneCommitRequest ==
    last.op \in {"GitlabAddBlob", "GitlabDeleteBlob"} =>
        OneRequestOneAction(last)

(* C24: each remote AddBlob and DeleteBlob sends exactly one commit        *)
(* request of exactly one action for the key, unless the failure toggle is *)
(* set: then it sends no request and returns an error.                     *)
OneCommitRequestUnlessSimulated ==
    last.op \in {"GitlabAddBlob", "GitlabDeleteBlob"} =>
        IF simFail THEN last.sent = <<>> /\ last.ret # Nil
        ELSE OneRequestOneAction(last)

(* a remote AddBlob has returned success having sent its request *)
AddedWithOneRequest ==
    /\ last.op = "GitlabAddBlob"
    /\ last.ret = Nil
    /\ Len(last.sent) = 1

(* C25: when a remote AddBlob or DeleteBlob returns an error, the files of *)
(* the project are what they were before the call.                         *)
FailedRemoteMutationNotApplied ==
    last.op \in {"GitlabAddBlob", "GitlabDeleteBlob"} /\ last.ret # Nil =>
        gitlab.files = last.before.files

----------------------------------------------------------------------------
(* Properties of the version metadata *)

(* C27: the local GetVersionMetadata returns the metadata of HEAD whatever *)
(* token it is given: after two commits, given the token of the first, it  *)
(* returns the metadata of the second.                                     *)
MetadataIsOfHead ==
    last.op = "GetVersionMetadata" /\ GitUsable(repo) /\ repo.head # 0 =>
        /\ last.res.ok
        /\ last.res.val.CommitDate = repo.head
        /\ \A commitId \in 1..MaxCommits :
             GetVersionMetadataResult(repo, commitId) = last.res

(* GetVersionMetadata was given the token of the first of two commits *)
MetadataAskedOfFirstCommit ==
    /\ last.op = "GetVersionMetadata"
    /\ last.key = 1
    /\ repo.head = 2
    /\ last.res = Value([CommitDate |-> 2])

(* C28: a job that returned an error, a step of it having failed, has run  *)
(* both rollback commands, reset then clean, and when a rollback command   *)
(* failed the returned error is more than the error of the failed step.    *)
(* With one caller the repository is as the rollback left it, and neither  *)
(* command changes what makes it fail: a command that fails now failed in  *)
(* the job.                                                                *)
RollbackFailureCompounds ==
    LET StepErrors == {"failed blob operation",
                       "failed to add files to index", "failed to commit"}
    IN last.op \in BlobOps /\ last.job = "finished" /\ last.ret # Nil =>
          /\ last.hist.rolledBack = <<"reset", "clean">>
          /\ (GitResetHardHead(repo).err # Nil \/ GitClean(repo).err # Nil) =>
                last.ret \notin StepErrors

(* C29: every action in the body of a commit request that AddBlob or       *)
(* DeleteBlob sent carries, when the content is longer than one byte, the  *)
(* base64 encoding of the content (DecodeString gives the content back)    *)
(* and the encoding "base64"; when the content has length 0 or 1, a null   *)
(* content and a null encoding.                                            *)
CommitBodyEncodesLongContent ==
    last.op \in {"GitlabAddBlob", "GitlabDeleteBlob"} =>
        \A i \in DOMAIN last.sent : \A j \in DOMAIN last.sent[i] :
            LET act == last.sent[i][j]
            IN IF Len(last.content) > 1
               THEN /\ act.content = EncodeToString(last.content)
                    /\ DecodeString(act.content) = Value(last.content)
                    /\ act.encoding = "base64"
               ELSE /\ act.content = Null
                    /\ act.encoding = "null"

(* the request of an AddBlob of one byte was sent without content *)
OneByteSentWithoutContent ==
    /\ last.op = "GitlabAddBlob"
    /\ Len(last.content) = 1
    /\ last.sent # <<>>
    /\ last.sent[1][1].content = Null
    /\ last.sent[1][1].encoding = "null"

(* C26: for one and the same commit, ParseLocalCommitMetadata on the text  *)
(* git prints and GitlabCommitResponseToMetadata on the record the service *)
(* answers both succeed and give the same Author, the same instant as      *)
(* AuthorDate, the same Commit, the same instant as CommitDate and the     *)
(* same Message.                                                           *)
ParsersInterchangeable ==
    last.op \in {"ParseLocalCommitMetadata",
                 "GitlabCommitResponseToMetadata"} =>
        LET local == ParseLocalCommitMetadata(
                         GitShowFuller(last.commit, last.separator))
            response == GitlabCommitResponseToMetadata(
                            CommitQueryResponse(last.commit))
        IN /\ local.err = Nil /\ response.err = Nil
           /\ last.meta \in {local.meta, response.meta}
           /\ local.meta.Author = response.meta.Author
           /\ local.meta.AuthorDate.unix = response.meta.AuthorDate.unix
           /\ local.meta.Commit = response.meta.Commit
           /\ local.meta.CommitDate.unix = response.meta.CommitDate.unix
           /\ local.meta.Message = response.meta.Message

(* C30: ParseLocalCommitMetadata on the fuller output of a commit succeeds *)
(* and returns the persons as printed after "Author:" and "Commit:", as    *)
(* dates what time.Parse gives for the timestamp with the offset written   *)
(* "+HH:MM" (the instant is the clock less the offset), and as Message the *)
(* lines of the message, each trimmed, joined by newlines; the separating  *)
(* line, empty or a tab, and the other lines add nothing.                  *)
LocalOutputParsed ==
    last.op = "ParseLocalCommitMetadata" =>
        LET c == last.commit
        IN /\ last.err = Nil
           /\ last.meta.Author = PersonText(c.author)
           /\ last.meta.Commit = PersonText(c.committer)
           /\ last.meta.AuthorDate =
                  TimeParse(DateAsRFC3339(c.authorDate)).val
           /\ last.meta.AuthorDate.unix =
                  ClockSeconds(c.authorDate.clock) - (60 * c.authorDate.offset)
           /\ last.meta.CommitDate =
                  TimeParse(DateAsRFC3339(c.commitDate)).val
           /\ last.meta.CommitDate.unix =
                  ClockSeconds(c.commitDate.clock) - (60 * c.commitDate.offset)
           /\ last.meta.Message =
                  Join([i \in DOMAIN c.message |->
                          Trim(c.message[i], {" ", "\t"})], "\n")

(* the output with a tab on the separating line, a negative offset and a   *)
(* message with an empty line was parsed                                   *)
ParsedOutputWithTabLine ==
    /\ last.op = "ParseLocalCommitMetadata"
    /\ last.separator = <<"\t">>
    /\ last.commit.authorDate.offset < 0
    /\ last.commit.message = <<FirstLine, <<>>, OtherLine>>
    /\ last.err = Nil
    /\ last.meta.Message = FirstLine \o <<"\n", "\n">> \o OtherLine

(* C34: a step in which GetBlob, ListBlobKeys, GetStateID, GetVersionFor,  *)
(* GetVersionMetadata or CheckStatus returns leaves the repository as it   *)
(* was (no commit, no file of the working tree or of the index changed),   *)
(* submits no job (the callers, the worker and the queue are as before),   *)
(* and GetStateID and ListBlobKeys give after it what they gave before.    *)
ReadsLeaveRepositoryUnchanged ==
    [][last'.op \in {"GetBlob", "ListBlobKeys", "GetStateID",
                     "GetVersionFor", "GetVersionMetadata", "CheckStatus"} =>
          /\ repo' = repo
          /\ caller' = caller /\ worker' = worker
          /\ admitOrder' = admitOrder /\ hist' = hist
          /\ GetStateIDResult(repo') = GetStateIDResult(repo)
          /\ ListBlobKeysResult(repo') = ListBlobKeysResult(repo)]_vars

(* GetBlob has returned the content of a committed blob *)
ReadCommittedBlob ==
    /\ last.op = "GetBlob"
    /\ last.res.ok
    /\ repo.head # 0
    /\ repo.tree[last.key] # NoFile
    /\ repo.wt[last.key] = repo.tree[last.key]

(* C32: every call of Enqueue returns: a caller that is blocked on the     *)
(* send or waits for its job is idle again later; and the worker is never  *)
(* itself a sender: the job it runs belongs to a caller that waits in      *)
(* Enqueue, and while it runs no step of it submits a job.                 *)
EnqueueEventuallyReturns ==
    /\ [](\A w \in Workers : worker[w] # 0 =>
            caller[worker[w]].pc = "wait" /\ Running(worker[w]))
    /\ \A c \in Callers :
          (caller[c].pc \in {"send", "wait"}) ~> (caller[c].pc = "idle")

(* the second caller is blocked on the send while the job of the first is  *)
(* in its rollback                                                         *)
BlockedBehindRollback ==
    /\ caller[2].pc = "send"
    /\ caller[1].pc = "wait"
    /\ caller[1].job = "clean"

(* C33: a caller that asks for a client holds none: every client that is   *)
(* not in the pool is held by a request in progress, never by a caller     *)
(* that is between two requests of its operation or that waits; so when    *)
(* callers wait at an empty pool some request in progress can return, and  *)
(* a caller that waits in sendRequest gets a client.                       *)
PoolNeverDeadlocks ==
    /\ [](pool.idle + InProgress = poolSize)
    /\ []((pool.me = "waiting" \/ pool.waiting > 0) /\ pool.idle = 0 =>
            ENABLED (\E who \in PoolUsers, exit \in SendExits :
                        sendRequest(who, exit)))
    /\ (pool.me = "waiting") ~> (pool.me = "holding")

(* the caller was given the last client while another caller waits *)
GotLastClientAheadOfOthers ==
    /\ last.op = "Get"
    /\ last.who = "me"
    /\ pool.me = "holding"
    /\ pool.idle = 0
    /\ pool.waiting > 0

(* C31: between operations, every key that the committed tree holds,      *)
(* which is what ListBlobKeys lists, was stored by an AddBlob or a         *)
(* CopyBlob that returned success: no commit brings in the file of         *)
(* another, failed operation.                                              *)
CommittedKeysWereAdded ==
    GitUsable(repo) /\ (\A c \in Callers : caller[c].pc = "idle") =>
        \A k \in FileKeys : repo.tree[k] # NoFile => k \in addedKeys

====
